---- MODULE Spec2Model ----
(***************************************************************************)
(* Model of the plugin registration / dispatch core of                     *)
(* @yai-nextjs/plugin-support: PluginRegistry (core/registry.ts),          *)
(* the validation helpers (utils/validation.ts), PluginRouter             *)
(* (core/router.ts), and MiddlewareChain and createRateLimitMiddleware     *)
(* (middleware/chain.ts).                                                  *)
(*                                                                         *)
(* Paths are sequences of one-character strings, so that sanitizePath,     *)
(* split('/'), startsWith and slice are computed on characters.            *)
(***************************************************************************)
EXTENDS Integers, Sequences, FiniteSets, TLC

VARIABLES
    plugins,            \* PluginRegistry.plugins: name -> PluginMetadata
    routes,             \* PluginRegistry.routes: path -> (method -> handler)
    middlewares,        \* PluginRegistry.middlewares: global ordered list
    pluginRoutes,       \* PluginRegistry.pluginRoutes: ordered Map name -> Set<path>
    pluginMiddlewares,  \* PluginRegistry.pluginMiddlewares: name -> list
    last,               \* the last registry call: operation, argument, outcome
    registered,         \* history: name -> the routes of the plugin's successful
                        \* register call, until it is unregistered or cleared
    registeredMiddlewares, \* history: name -> the number of middleware entries
                        \* of that register call
    ropts,              \* PluginRouter.options
    req,                \* the request PluginRouter.handle is working on
    chain,              \* the call of MiddlewareChain.execute in progress
    now,                \* Date.now()
    store,              \* createRateLimitMiddleware: key -> {count, resetTime}
    arrivals            \* history: the requests the rate limiter has seen

regvars == <<plugins, routes, middlewares, pluginRoutes, pluginMiddlewares>>

\* the state of middleware/chain.ts
mwvars == <<chain, now, store, arrivals>>

-----------------------------------------------------------------------------
(* Bounds and configured options *)

\* options.maxPlugins as configured for the checked registry instance
MaxPlugins == 2

\* the constructor: maxPlugins: options.maxPlugins ?? 100
DefaultMaxPlugins == 100

RegistryOptions == [maxPlugins |-> [def |-> TRUE, val |-> MaxPlugins]]

maxPlugins ==
    IF RegistryOptions.maxPlugins.def THEN RegistryOptions.maxPlugins.val
    ELSE DefaultMaxPlugins

-----------------------------------------------------------------------------
(* Map helpers: a JS Map without iteration order is a function; a Map whose *)
(* iteration order is observable is a sequence of [key, value] entries.     *)

EmptyMap == [x \in {} |-> x]

MapPut(f, k, v) == [x \in (DOMAIN f) \cup {k} |-> IF x = k THEN v ELSE f[x]]

MapDel(f, k) == [x \in (DOMAIN f) \ {k} |-> f[x]]

OMapHas(om, k) == \E i \in 1..Len(om) : om[i].key = k

OMapGet(om, k) == om[CHOOSE i \in 1..Len(om) : om[i].key = k].value

OMapSet(om, k, v) ==
    IF OMapHas(om, k)
    THEN [i \in 1..Len(om) |-> IF om[i].key = k THEN [key |-> k, value |-> v] ELSE om[i]]
    ELSE Append(om, [key |-> k, value |-> v])

OMapDel(om, k) == SelectSeq(om, LAMBDA e : e.key # k)

-----------------------------------------------------------------------------
(* Paths *)

Slash == "/"

P_a       == <<"/", "a">>
P_b       == <<"/", "b">>
P_aSlash  == <<"/", "a", "/">>
P_dbl_a   == <<"/", "/", "a">>
P_tmpl    == <<"/", "u", "/", ":", "i">>
P_u1      == <<"/", "u", "/", "1">>
P_u1x     == <<"/", "u", "/", "1", "/", "x">>
P_noSlash == <<"a">>

\* .replace(/\/+/g, '/')
RECURSIVE CollapseSlashes(_)
CollapseSlashes(p) ==
    IF Len(p) <= 1 THEN p
    ELSE IF p[1] = Slash /\ p[2] = Slash
         THEN CollapseSlashes(Tail(p))
         ELSE <<p[1]>> \o CollapseSlashes(Tail(p))

\* .replace(/\/$/, '')
StripTrailingSlash(p) ==
    IF Len(p) > 0 /\ p[Len(p)] = Slash THEN SubSeq(p, 1, Len(p) - 1) ELSE p

\* .replace(/^(?!\/)/, '/')
EnsureLeadingSlash(p) ==
    IF Len(p) > 0 /\ p[1] = Slash THEN p ELSE <<Slash>> \o p

\* a sanitizePath without the first replace
sanitizePath_NoCollapse(p) == EnsureLeadingSlash(StripTrailingSlash(p))

sanitizePath(p) == EnsureLeadingSlash(StripTrailingSlash(CollapseSlashes(p)))

\* String.prototype.startsWith
StartsWith(s, prefix) ==
    /\ Len(prefix) <= Len(s)
    /\ SubSeq(s, 1, Len(prefix)) = prefix

\* String.prototype.split('/'): the pieces between the slashes, empty ones kept
RECURSIVE SplitFrom(_, _, _)
SplitFrom(p, i, cur) ==
    IF i > Len(p) THEN <<cur>>
    ELSE IF p[i] = Slash
         THEN <<cur>> \o SplitFrom(p, i + 1, <<>>)
         ELSE SplitFrom(p, i + 1, Append(cur, p[i]))

Split(p) == SplitFrom(p, 1, <<>>)

-----------------------------------------------------------------------------
(* Values of the descriptors *)

Undef == [def |-> FALSE]
Some(v) == [def |-> TRUE, val |-> v]

\* types.ts HttpMethod / validation.ts VALID_HTTP_METHODS
VALID_HTTP_METHODS == {"GET", "POST", "PUT", "DELETE", "PATCH", "HEAD", "OPTIONS"}

\* Middleware handler functions. As createMiddleware and the decorators build
\* them they are plain closures: the function object itself carries no
\* `priority` and no `routes` property (those live on the MiddlewareConfig).
\* fnT is a function to which its author attached an own `priority` property.
MiddlewareFns == {"fnA", "fnB", "fnC", "fnT", "fnR"}

FnOwnPriority(fn) == IF fn = "fnT" THEN Some(5) ELSE Undef

FnOwnRoutes(fn) == Undef

\* MiddlewareConfig values (createMiddleware)
MW_A == [name |-> "A", handler |-> "fnA", priority |-> Some(10), routes |-> Undef]
MW_B == [name |-> "B", handler |-> "fnB", priority |-> Some(20), routes |-> Undef]
MW_C == [name |-> "C", handler |-> "fnC", priority |-> Some(0), routes |-> Some(<<P_b>>)]
MW_T == [name |-> "T", handler |-> "fnT", priority |-> Some(5), routes |-> Undef]
MW_NoHandler == [name |-> "N", handler |-> "notAFunction", priority |-> Some(0), routes |-> Undef]

MW_R == [name |-> "R", handler |-> "fnR", priority |-> Some(0), routes |-> Undef]

MiddlewareConfigs == {MW_A, MW_B, MW_C, MW_T, MW_R}

\* the MiddlewareConfig a handler function was declared in
ConfigOf(fn) == CHOOSE c \in MiddlewareConfigs : c.handler = fn

\* the priority the plugin author declared, default 0 (types.ts createMiddleware)
DeclaredPriority(fn) == ConfigOf(fn).priority.val

\* A route handler function is identified by the descriptor that supplies it
\* and the route key and method it is declared under.
HandlerOf(name, key, method) == [plugin |-> name, key |-> key, method |-> method]

R(path, methods) == [path |-> path, methods |-> methods, handlersAreFunctions |-> TRUE]

ValidNames == {"users", "blogs", "auth"}

\* a PluginConfig; routes are the ordered entries Object.entries(plugin.routes) yields
Descriptor(n, v, r, m, e) ==
    [name |-> n, version |-> v, routes |-> r, middlewares |-> m, enabled |-> e,
     hooks |-> Undef]

\* PluginHooks: the entries Object.entries(plugin.hooks) yields. A hook function
\* is plugin code: it returns ("ok"), throws ("throw") or returns a promise
\* that rejects ("reject").
HookBehaviours == {"ok", "throw", "reject"}

Hook(name, fn) == [name |-> name, fn |-> fn]

H_ok     == <<Hook("onInit", "ok"), Hook("onRouteRegister", "ok")>>
H_throw  == <<Hook("onInit", "throw"), Hook("onRouteRegister", "throw")>>
H_reject == <<Hook("onRouteRegister", "reject"), Hook("onInit", "reject")>>
H_init   == <<Hook("onInit", "throw")>>
H_request == <<Hook("onRequest", "ok"), Hook("onResponse", "throw"), Hook("onError", "reject")>>
H_badName == <<Hook("onFoo", "ok")>>
H_notFn   == <<Hook("onInit", "notAFunction")>>

WithHooks(d, h) == [d EXCEPT !.hooks = Some(h)]

\* The plugins of the model. D_blogs2 conflicts with D_users1 on its second
\* route; D_blogs1 and D_auth1 declare other methods on the path of D_users1
\* (D_auth1 under the key '/a/'); D_users2 declares a route template.
D_users1(e) == Descriptor("users", "1.0.0", <<R(P_a, <<"GET">>)>>, Some(<<MW_A, MW_B>>), e)
D_users2(e) == Descriptor("users", "1.0.0", <<R(P_tmpl, <<"GET">>), R(P_b, <<"POST">>)>>, Undef, e)
D_blogs1(e) == Descriptor("blogs", "1.0.0", <<R(P_a, <<"POST">>)>>, Some(<<MW_B>>), e)
D_blogs2(e) == Descriptor("blogs", "1.0.0", <<R(P_b, <<"GET">>), R(P_a, <<"GET">>)>>, Undef, e)
D_auth1(e)  == Descriptor("auth", "1.0.0", <<R(P_aSlash, <<"OPTIONS", "POST">>)>>,
                          Some(<<MW_C, MW_T>>), e)

\* definePlugin sets enabled: true; a PluginConfig literal may leave it out or say false
ValidDescriptors ==
    UNION { {D_users1(e), D_users2(e), D_blogs1(e), D_blogs2(e), D_auth1(e)} :
            e \in {Undef, Some(FALSE)} }

\* the same plugins with lifecycle hooks
HookedDescriptors ==
    { WithHooks(d, h) : d \in {D_users2(Undef), D_blogs2(Undef)},
                        h \in {H_ok, H_throw, H_reject} }
      \cup {WithHooks(D_auth1(Undef), H_init)}

InvalidDescriptors ==
    { Descriptor("a", "1.0", <<R(P_a, <<"GET">>)>>, Undef, Some(TRUE)),
      Descriptor("auth", "1.0", <<R(P_b, <<"POST">>)>>, Undef, Some(TRUE)),
      Descriptor("users", "1.0.0", <<R(P_noSlash, <<"GET">>)>>, Undef, Some(TRUE)),
      Descriptor("blogs", "1.0.0", <<R(P_b, <<"FETCH">>)>>, Undef, Some(TRUE)),
      Descriptor("blogs", "1.0.0", <<R(P_b, <<"POST">>)>>, Some(<<MW_NoHandler>>), Some(TRUE)),
      Descriptor("bad name", "1.0.0",
                 <<[path |-> P_b, methods |-> <<"POST">>, handlersAreFunctions |-> FALSE]>>,
                 Undef, Some(TRUE)),
      WithHooks(Descriptor("a", "1.0.0", <<R(P_noSlash, <<"GET">>)>>,
                           Some(<<MW_NoHandler>>), Some(TRUE)), H_badName),
      WithHooks(D_users1(Undef), H_notFn) }

\* a plugin with a middleware that may call next() a second time
D_users3(e) == Descriptor("users", "1.0.0", <<R(P_a, <<"GET">>)>>, Some(<<MW_R, MW_C>>), e)

\* a plugin whose own route keys '/a' and '/a/' sanitize to the same path
D_blogs3(e) == Descriptor("blogs", "1.0.0", <<R(P_a, <<"GET">>), R(P_aSlash, <<"GET">>)>>, Undef, e)

Descriptors == ValidDescriptors \cup HookedDescriptors \cup InvalidDescriptors

-----------------------------------------------------------------------------
(* utils/validation.ts: every validator returns "true" or a violation message *)

\* /^[a-zA-Z0-9-_]+$/ on the names of the model
NameCharsOk(name) == name \notin {"bad name"}

validatePluginName(name) ==
    IF name = "" THEN "Plugin name must be a non-empty string"
    ELSE IF Len(name) < 3 \/ Len(name) > 50
         THEN "Plugin name must be between 3 and 50 characters"
    ELSE IF ~NameCharsOk(name)
         THEN "Plugin name can only contain letters, numbers, hyphens, and underscores"
    ELSE "true"

\* the semver regex on the version strings of the model
SemverOk(version) == version \in {"1.0.0", "2.0.0-beta.1"}

validatePluginVersion(version) ==
    IF version = "" THEN "Plugin version must be a non-empty string"
    ELSE IF ~SemverOk(version)
         THEN "Plugin version must follow semantic versioning (e.g., 1.0.0)"
    ELSE "true"

\* first violation of one route entry, "true" if none
validateRouteEntry(e) ==
    IF ~StartsWith(e.path, <<Slash>>) THEN "Route path must start with '/'"
    ELSE IF \E j \in 1..Len(e.methods) :
              /\ e.methods[j] \notin VALID_HTTP_METHODS
              /\ \A k \in 1..(j - 1) : e.handlersAreFunctions
         THEN "Invalid HTTP method for route"
    ELSE IF Len(e.methods) > 0 /\ ~e.handlersAreFunctions
         THEN "Handler must be a function"
    ELSE "true"

validateRouteConfig(rs) ==
    IF \E i \in 1..Len(rs) : validateRouteEntry(rs[i]) # "true"
    THEN LET i == CHOOSE k \in 1..Len(rs) :
                    /\ validateRouteEntry(rs[k]) # "true"
                    /\ \A l \in 1..(k - 1) : validateRouteEntry(rs[l]) = "true"
         IN validateRouteEntry(rs[i])
    ELSE "true"

validateMiddlewareEntry(c) ==
    IF c.name = "" THEN "Middleware must have a valid name"
    ELSE IF c.handler \notin MiddlewareFns THEN "Middleware must have a handler function"
    ELSE IF c.priority.def /\ c.priority.val < 0
         THEN "Middleware priority must be a non-negative number"
    ELSE "true"

validateMiddlewareConfig(ms) ==
    IF \E i \in 1..Len(ms) : validateMiddlewareEntry(ms[i]) # "true"
    THEN LET i == CHOOSE k \in 1..Len(ms) :
                    /\ validateMiddlewareEntry(ms[k]) # "true"
                    /\ \A l \in 1..(k - 1) : validateMiddlewareEntry(ms[l]) = "true"
         IN validateMiddlewareEntry(ms[i])
    ELSE "true"

validHooks ==
    {"onInit", "onDestroy", "onRouteRegister", "onRouteUnregister",
     "onRequest", "onResponse", "onError"}

validateHookEntry(h) ==
    IF h.name \notin validHooks THEN "Invalid hook name"
    ELSE IF h.fn \notin HookBehaviours THEN "Hook must be a function"
    ELSE "true"

validateHooks(hs) ==
    IF \E i \in 1..Len(hs) : validateHookEntry(hs[i]) # "true"
    THEN LET i == CHOOSE k \in 1..Len(hs) :
                    /\ validateHookEntry(hs[k]) # "true"
                    /\ \A l \in 1..(k - 1) : validateHookEntry(hs[l]) = "true"
         IN validateHookEntry(hs[i])
    ELSE "true"

\* a Validator.validate that returns at the first failing rule
ValidationErrors_FirstOnly(d) ==
    LET one(res) == IF res = "true" THEN <<>> ELSE <<res>>
        all == one(validatePluginName(d.name))
               \o one(validatePluginVersion(d.version))
               \o one(validateRouteConfig(d.routes))
               \o (IF d.middlewares.def THEN one(validateMiddlewareConfig(d.middlewares.val)) ELSE <<>>)
               \o (IF d.hooks.def THEN one(validateHooks(d.hooks.val)) ELSE <<>>)
    IN IF all = <<>> THEN <<>> ELSE <<all[1]>>

\* Validator.validate over the rules validatePluginConfig adds, in the order
\* they are added: the violations of all fields, not only the first
ValidationErrors(d) ==
    LET one(res) == IF res = "true" THEN <<>> ELSE <<res>>
    IN  one(validatePluginName(d.name))
        \o one(validatePluginVersion(d.version))
        \o one(validateRouteConfig(d.routes))
        \o (IF d.middlewares.def THEN one(validateMiddlewareConfig(d.middlewares.val)) ELSE <<>>)
        \o (IF d.hooks.def THEN one(validateHooks(d.hooks.val)) ELSE <<>>)

-----------------------------------------------------------------------------
(* core/types.ts: the error classes *)

NoError == [type |-> "none", code |-> "none", statusCode |-> 0, violations |-> <<>>]

PluginValidationError(violations) ==
    [type |-> "PluginValidationError", code |-> "PLUGIN_VALIDATION_ERROR",
     statusCode |-> 400, violations |-> violations]

PluginRegistrationError(code, violations) ==
    [type |-> "PluginRegistrationError", code |-> code,
     statusCode |-> 500, violations |-> violations]

PluginRouteError(code) ==
    [type |-> "PluginRouteError", code |-> code, statusCode |-> 404, violations |-> <<>>]

\* an exception of plugin code: a plain Error
PlainError == [type |-> "Error", code |-> "none", statusCode |-> 0, violations |-> <<>>]

\* validatePluginConfig: throws PluginValidationError listing every violation
validatePluginConfig(d) ==
    IF ValidationErrors(d) = <<>> THEN NoError
    ELSE PluginValidationError(ValidationErrors(d))

-----------------------------------------------------------------------------
(* core/registry.ts: PluginRegistry, as operators on a registry value *)

Reg == [plugins |-> plugins, routes |-> routes, middlewares |-> middlewares,
        pluginRoutes |-> pluginRoutes, pluginMiddlewares |-> pluginMiddlewares]

EmptyReg == [plugins |-> EmptyMap, routes |-> EmptyMap, middlewares |-> <<>>,
             pluginRoutes |-> <<>>, pluginMiddlewares |-> EmptyMap]

\* a validateRegistration that does not look the name up
validateRegistration_NoNameCheck(r, d) ==
    IF Cardinality(DOMAIN r.plugins) >= maxPlugins
    THEN PluginRegistrationError("MAX_PLUGINS_EXCEEDED", <<>>)
    ELSE validatePluginConfig(d)

\* a validateRegistration that looks the name up before it counts the plugins
validateRegistration_NameFirst(r, d) ==
    IF d.name \in DOMAIN r.plugins
    THEN PluginRegistrationError("PLUGIN_ALREADY_EXISTS", <<>>)
    ELSE IF Cardinality(DOMAIN r.plugins) >= maxPlugins
         THEN PluginRegistrationError("MAX_PLUGINS_EXCEEDED", <<>>)
    ELSE validatePluginConfig(d)

\* validateRegistration: the error it throws, NoError if it returns
validateRegistration(r, d) ==
    IF Cardinality(DOMAIN r.plugins) >= maxPlugins
    THEN PluginRegistrationError("MAX_PLUGINS_EXCEEDED", <<>>)
    ELSE IF d.name \in DOMAIN r.plugins
         THEN PluginRegistrationError("PLUGIN_ALREADY_EXISTS", <<>>)
    ELSE validatePluginConfig(d)

\* the PluginMetadata register() builds
MetadataOf(d) ==
    [name |-> d.name, version |-> d.version,
     enabled |-> IF d.enabled.def THEN d.enabled.val ELSE TRUE]

\* plugin.hooks[hookName], if the plugin has it
HookFn(d, hookName) ==
    IF d.hooks.def /\ \E i \in 1..Len(d.hooks.val) : d.hooks.val[i].name = hookName
    THEN Some(d.hooks.val[CHOOSE i \in 1..Len(d.hooks.val) : d.hooks.val[i].name = hookName].fn)
    ELSE Undef

\* an executeHook without the try/catch around the call
executeHook_Propagates(d, hookName, args) ==
    IF ~HookFn(d, hookName).def THEN [fired |-> <<>>, err |-> NoError]
    ELSE [fired |-> <<[hook |-> hookName, args |-> args, did |-> HookFn(d, hookName).val]>>,
          err |-> IF HookFn(d, hookName).val = "throw" THEN PlainError ELSE NoError]

\* executeHook: calls the hook if there is one. A synchronous throw is caught
\* and logged, a returned promise gets a catch handler: nothing reaches the
\* caller. fired = the call made and what the hook did, err = the exception
\* that leaves executeHook.
executeHook(d, hookName, args) ==
    IF ~HookFn(d, hookName).def THEN [fired |-> <<>>, err |-> NoError]
    ELSE [fired |-> <<[hook |-> hookName, args |-> args, did |-> HookFn(d, hookName).val]>>,
          err |-> NoError]

\* registerRoutes: the two nested loops. st = [routes, paths, err, hooks]; the
\* table is written entry by entry, onRouteRegister fires after each write,
\* and a conflict throws out of the loops.
RECURSIVE RegisterMethodsFrom(_, _, _, _, _)
RegisterMethodsFrom(st, d, e, sp, j) ==
    IF j > Len(e.methods) THEN st
    ELSE LET m == e.methods[j] IN
         IF m \in DOMAIN st.routes[sp]
         THEN [st EXCEPT !.err = PluginRegistrationError("ROUTE_CONFLICT", <<>>)]
         ELSE LET hk == executeHook(d, "onRouteRegister", <<sp, m>>)
                  s1 == [st EXCEPT
                           !.routes = MapPut(st.routes, sp,
                                             MapPut(st.routes[sp], m, HandlerOf(d.name, e.path, m))),
                           !.hooks = st.hooks \o hk.fired,
                           !.err = hk.err]
              IN IF hk.err # NoError THEN s1
                 ELSE RegisterMethodsFrom(s1, d, e, sp, j + 1)

\* a registerRoutes that keys the route table on the route keys as written
RECURSIVE RegisterEntriesFrom_RawPath(_, _, _)
RegisterEntriesFrom_RawPath(st, d, i) ==
    IF i > Len(d.routes) THEN st
    ELSE LET e  == d.routes[i]
             sp == e.path
             s1 == [st EXCEPT !.paths = st.paths \cup {sp},
                              !.routes = IF sp \in DOMAIN st.routes THEN st.routes
                                         ELSE MapPut(st.routes, sp, EmptyMap)]
             s2 == RegisterMethodsFrom(s1, d, e, sp, 1)
         IN IF s2.err # NoError THEN s2 ELSE RegisterEntriesFrom_RawPath(s2, d, i + 1)

RECURSIVE RegisterEntriesFrom(_, _, _)
RegisterEntriesFrom(st, d, i) ==
    IF i > Len(d.routes) THEN st
    ELSE LET e  == d.routes[i]
             sp == sanitizePath(e.path)
             s1 == [st EXCEPT !.paths = st.paths \cup {sp},
                              !.routes = IF sp \in DOMAIN st.routes THEN st.routes
                                         ELSE MapPut(st.routes, sp, EmptyMap)]
             s2 == RegisterMethodsFrom(s1, d, e, sp, 1)
         IN IF s2.err # NoError THEN s2 ELSE RegisterEntriesFrom(s2, d, i + 1)

registerRoutes(r, d) ==
    LET st == RegisterEntriesFrom([routes |-> r.routes, paths |-> {}, err |-> NoError,
                                   hooks |-> <<>>], d, 1)
    IN  IF st.err # NoError
        THEN [reg |-> [r EXCEPT !.routes = st.routes], err |-> st.err, hooks |-> st.hooks]
        ELSE [reg |-> [r EXCEPT !.routes = st.routes,
                                !.pluginRoutes = OMapSet(r.pluginRoutes, d.name, st.paths)],
              err |-> NoError, hooks |-> st.hooks]

\* the comparator's key: (a.priority || 0) read from the handler function
SortPriority(fn) ==
    IF FnOwnPriority(fn).def THEN FnOwnPriority(fn).val ELSE 0

\* Array.prototype.sort with comparator b - a: stable, descending
RECURSIVE InsertSorted(_, _)
InsertSorted(sorted, fn) ==
    IF sorted = <<>> THEN <<fn>>
    ELSE IF SortPriority(fn) > SortPriority(Head(sorted))
         THEN <<fn>> \o sorted
         ELSE <<Head(sorted)>> \o InsertSorted(Tail(sorted), fn)

RECURSIVE SortMiddlewares(_)
SortMiddlewares(list) ==
    IF list = <<>> THEN <<>>
    ELSE InsertSorted(SortMiddlewares(SubSeq(list, 1, Len(list) - 1)), list[Len(list)])

registerMiddlewares(r, d) ==
    IF ~d.middlewares.def THEN r
    ELSE LET hs == [i \in 1..Len(d.middlewares.val) |-> d.middlewares.val[i].handler]
         IN [r EXCEPT !.middlewares = SortMiddlewares(r.middlewares \o hs),
                      !.pluginMiddlewares = MapPut(r.pluginMiddlewares, d.name, hs)]

\* the catch block of register: an error that is not a PluginRegistrationError
\* is wrapped in one ('Failed to register plugin: ' + message)
RegisterCatch(e) ==
    IF e.type = "PluginRegistrationError" THEN e
    ELSE PluginRegistrationError("REGISTRATION_ERROR", e.violations)

\* register: the registry after the call, the error it throws (NoError if it
\* returns) and the hook calls it made, in order.
register(r, d) ==
    LET v == validateRegistration(r, d) IN
    IF v # NoError
    THEN [reg |-> r, err |-> RegisterCatch(v), hooks |-> <<>>]
    ELSE LET r1 == [r EXCEPT !.plugins = MapPut(r.plugins, d.name, MetadataOf(d))]
             rr == registerRoutes(r1, d)
             r3 == registerMiddlewares(rr.reg, d)
             hk == executeHook(d, "onInit", <<>>)
         IN IF rr.err # NoError
            THEN [reg |-> rr.reg, err |-> RegisterCatch(rr.err), hooks |-> rr.hooks]
            ELSE [reg |-> r3,
                  err |-> IF hk.err = NoError THEN NoError ELSE RegisterCatch(hk.err),
                  hooks |-> rr.hooks \o hk.fired]

\* unregisterRoutes: every path of the plugin's ownership set is dropped whole
unregisterRoutes(r, name) ==
    IF ~OMapHas(r.pluginRoutes, name) THEN r
    ELSE LET paths == OMapGet(r.pluginRoutes, name)
         IN [r EXCEPT !.routes = [p \in (DOMAIN r.routes) \ paths |-> r.routes[p]],
                      !.pluginRoutes = OMapDel(r.pluginRoutes, name)]

\* splice(indexOf(fn), 1)
RemoveFirst(list, fn) ==
    IF \E i \in 1..Len(list) : list[i] = fn
    THEN LET i == CHOOSE k \in 1..Len(list) :
                     list[k] = fn /\ \A l \in 1..(k - 1) : list[l] # fn
         IN SubSeq(list, 1, i - 1) \o SubSeq(list, i + 1, Len(list))
    ELSE list

RECURSIVE RemoveAll(_, _)
RemoveAll(list, fns) ==
    IF fns = <<>> THEN list ELSE RemoveAll(RemoveFirst(list, Head(fns)), Tail(fns))

unregisterMiddlewares(r, name) ==
    IF name \notin DOMAIN r.pluginMiddlewares THEN r
    ELSE [r EXCEPT !.middlewares = RemoveAll(r.middlewares, r.pluginMiddlewares[name]),
                   !.pluginMiddlewares = MapDel(r.pluginMiddlewares, name)]

unregister(r, name) ==
    IF name \notin DOMAIN r.plugins THEN [reg |-> r, ret |-> FALSE]
    ELSE LET r2 == unregisterMiddlewares(unregisterRoutes(r, name), name)
         IN [reg |-> [r2 EXCEPT !.plugins = MapDel(r2.plugins, name)], ret |-> TRUE]

setEnabled(r, name, flag) ==
    IF name \notin DOMAIN r.plugins THEN [reg |-> r, ret |-> FALSE]
    ELSE [reg |-> [r EXCEPT !.plugins[name].enabled = flag], ret |-> TRUE]

enablePlugin(r, name) == setEnabled(r, name, TRUE)

disablePlugin(r, name) == setEnabled(r, name, FALSE)

\* findPluginByRoute: the first plugin, in the insertion order of the
\* ownership map, whose path set holds the path; plugins.get of its name
findPluginByRoute(r, path) ==
    IF \E i \in 1..Len(r.pluginRoutes) : path \in r.pluginRoutes[i].value
    THEN LET i == CHOOSE k \in 1..Len(r.pluginRoutes) :
                     /\ path \in r.pluginRoutes[k].value
                     /\ \A l \in 1..(k - 1) : path \notin r.pluginRoutes[l].value
             n == r.pluginRoutes[i].key
         IN IF n \in DOMAIN r.plugins THEN Some(r.plugins[n]) ELSE Undef
    ELSE Undef

\* getMiddlewaresForRoute: filter on the handler function's own `routes`
getMiddlewaresForRoute(r, path) ==
    SelectSeq(r.middlewares,
              LAMBDA fn : \/ ~FnOwnRoutes(fn).def
                          \/ \E i \in 1..Len(FnOwnRoutes(fn).val) :
                                StartsWith(path, sanitizePath(FnOwnRoutes(fn).val[i])))

\* decodeURIComponent on the segments of the model (no '%' escapes occur)
decodeURIComponent(seg) == seg

\* extractParams(routePath, actualPath)
extractParams(routePath, actualPath) ==
    LET rp == Split(routePath)
        ap == Split(actualPath)
        bound == {i \in 1..Len(rp) :
                    /\ Len(rp[i]) > 0 /\ rp[i][1] = ":"
                    /\ i <= Len(ap) /\ ap[i] # <<>>}
        \* a later segment with the same parameter name overwrites an earlier one
        lastFor(nm) == CHOOSE i \in bound :
                          /\ Tail(rp[i]) = nm
                          /\ \A k \in bound : Tail(rp[k]) = nm => k <= i
    IN [nm \in {Tail(rp[i]) : i \in bound} |-> decodeURIComponent(ap[lastFor(nm)])]

\* the sum of f over the set S
RECURSIVE SumOver(_, _)
SumOver(S, f) ==
    IF S = {} THEN 0
    ELSE LET x == CHOOSE y \in S : TRUE IN f[x] + SumOver(S \ {x}, f)

getEnabledPlugins(r) == {n \in DOMAIN r.plugins : r.plugins[n].enabled}

\* getStats, without the process figures (memory usage, uptime)
getStats(r) ==
    [totalPlugins |-> Cardinality(DOMAIN r.plugins),
     enabledPlugins |-> Cardinality(getEnabledPlugins(r)),
     totalRoutes |-> SumOver(DOMAIN r.routes,
                             [p \in DOMAIN r.routes |-> Cardinality(DOMAIN r.routes[p])]),
     totalMiddlewares |-> Len(r.middlewares)]

\* a getHandler that falls back to another method's handler on the path
getHandler_MethodFallback(r, path, method) ==
    LET sp == sanitizePath(path) IN
    IF sp \notin DOMAIN r.routes \/ DOMAIN r.routes[sp] = {} THEN [kind |-> "null"]
    ELSE LET plugin == findPluginByRoute(r, sp)
             m == IF method \in DOMAIN r.routes[sp] THEN method
                  ELSE CHOOSE x \in DOMAIN r.routes[sp] : TRUE
         IN IF ~plugin.def
            THEN [kind |-> "throw", error |-> PluginRouteError("PLUGIN_NOT_FOUND")]
            ELSE [kind |-> "match",
                  plugin |-> plugin.val,
                  handler |-> r.routes[sp][m],
                  params |-> extractParams(sp, path),
                  middlewares |-> getMiddlewaresForRoute(r, sp)]

\* getHandler: kind "null", "match" or "throw"
getHandler(r, path, method) ==
    LET sp == sanitizePath(path) IN
    IF sp \notin DOMAIN r.routes THEN [kind |-> "null"]
    ELSE IF method \notin DOMAIN r.routes[sp] THEN [kind |-> "null"]
    ELSE LET plugin == findPluginByRoute(r, sp) IN
         IF ~plugin.def
         THEN [kind |-> "throw", error |-> PluginRouteError("PLUGIN_NOT_FOUND")]
         ELSE [kind |-> "match",
               plugin |-> plugin.val,
               handler |-> r.routes[sp][method],
               params |-> extractParams(sp, path),
               middlewares |-> getMiddlewaresForRoute(r, sp)]

-----------------------------------------------------------------------------
(* The registry calls as actions *)

Call(op, arg, err, ret) ==
    [op |-> op, arg |-> arg, err |-> err, ret |-> ret, hooks |-> <<>>, stats |-> Undef]

SetReg(r) ==
    /\ plugins' = r.plugins
    /\ routes' = r.routes
    /\ middlewares' = r.middlewares
    /\ pluginRoutes' = r.pluginRoutes
    /\ pluginMiddlewares' = r.pluginMiddlewares

\* the (sanitized path, method, handler) triples a descriptor declares
DeclaredRoutes(d) ==
    UNION { { [path |-> sanitizePath(d.routes[i].path),
               method |-> d.routes[i].methods[j],
               handler |-> HandlerOf(d.name, d.routes[i].path, d.routes[i].methods[j])] :
              j \in 1..Len(d.routes[i].methods) } :
            i \in 1..Len(d.routes) }

Register(d) ==
    LET res == register(Reg, d) IN
    /\ SetReg(res.reg)
    /\ last' = [Call("register", d.name, res.err, res.err = NoError) EXCEPT !.hooks = res.hooks]
    /\ registered' = IF res.err = NoError
                     THEN MapPut(registered, d.name, DeclaredRoutes(d))
                     ELSE registered
    /\ registeredMiddlewares' =
          IF res.err = NoError
          THEN MapPut(registeredMiddlewares, d.name,
                      IF d.middlewares.def THEN Len(d.middlewares.val) ELSE 0)
          ELSE registeredMiddlewares
    /\ UNCHANGED <<ropts, req, mwvars>>

Unregister(name) ==
    LET res == unregister(Reg, name) IN
    /\ SetReg(res.reg)
    /\ last' = Call("unregister", name, NoError, res.ret)
    /\ registered' = MapDel(registered, name)
    /\ registeredMiddlewares' = MapDel(registeredMiddlewares, name)
    /\ UNCHANGED <<ropts, req, mwvars>>

EnablePlugin(name) ==
    LET res == enablePlugin(Reg, name) IN
    /\ SetReg(res.reg)
    /\ last' = Call("enablePlugin", name, NoError, res.ret)
    /\ UNCHANGED <<registered, registeredMiddlewares, ropts, req, mwvars>>

DisablePlugin(name) ==
    LET res == disablePlugin(Reg, name) IN
    /\ SetReg(res.reg)
    /\ last' = Call("disablePlugin", name, NoError, res.ret)
    /\ UNCHANGED <<registered, registeredMiddlewares, ropts, req, mwvars>>

Clear ==
    /\ SetReg(EmptyReg)
    /\ last' = Call("clear", "", NoError, TRUE)
    /\ registered' = EmptyMap
    /\ registeredMiddlewares' = EmptyMap
    /\ UNCHANGED <<ropts, req, mwvars>>

\* getStats leaves the registry as it is
GetStats ==
    /\ last' = [Call("getStats", "", NoError, TRUE) EXCEPT !.stats = Some(getStats(Reg))]
    /\ UNCHANGED <<regvars, registered, registeredMiddlewares, ropts, req, mwvars>>

-----------------------------------------------------------------------------
(* core/router.ts: PluginRouter *)

\* the router options: the constructor's defaults, and the other settings
DefaultRouterOptions ==
    [enableMiddleware |-> TRUE, enableCors |-> TRUE, errorHandler |-> "default"]

RouterOptions ==
    [enableMiddleware : BOOLEAN, enableCors : BOOLEAN, errorHandler : {"default", "custom"}]

RequestMethods == {"GET", "POST", "OPTIONS"}

Idle == [pc |-> "idle"]

Response(status, body) ==
    [kind |-> "response", status |-> status, body |-> body, headers |-> EmptyMap]

Thrown(error) == [kind |-> "throw", error |-> error]

\* What a middleware function does when it is invoked: "pass" runs its code,
\* awaits next() and returns what next() gave; "short" returns a response of
\* its own without calling next(); "throw" throws before calling next();
\* "twice" is "pass" that calls next() once more after the first call returned
\* a response, and returns what the second call gave.
MiddlewareBehaviours(fn) ==
    CASE fn = "fnC" -> {"pass", "short", "throw"}
      [] fn = "fnR" -> {"pass", "twice"}
      [] fn = "fnT" -> {"pass", "throw"}
      [] OTHER      -> {"pass"}

\* the constructor's corsOptions
corsOptions ==
    [origin |-> [kind |-> "boolean", bool |-> TRUE, str |-> ""],
     methods |-> Some(<<"GET", "POST", "PUT", "DELETE", "PATCH", "HEAD", "OPTIONS">>),
     allowedHeaders |-> Some(<<"Content-Type", "Authorization", "X-Requested-With">>),
     exposedHeaders |-> <<>>,
     credentials |-> TRUE,
     maxAge |-> 86400]

\* Array.prototype.join(', ')
RECURSIVE Join(_)
Join(list) ==
    IF list = <<>> THEN ""
    ELSE IF Len(list) = 1 THEN list[1]
    ELSE list[1] \o ", " \o Join(Tail(list))

SetHeader(h, name, value) == MapPut(h, name, value)

\* the Access-Control-Allow-Origin value of a boolean or string origin option
AllowOrigin(h, co) ==
    IF co.origin.kind = "boolean"
    THEN SetHeader(h, "Access-Control-Allow-Origin", IF co.origin.bool THEN "*" ELSE "null")
    ELSE IF co.origin.kind = "string"
    THEN SetHeader(h, "Access-Control-Allow-Origin", co.origin.str)
    ELSE h

\* a test that never takes a request for a preflight
IsPreflight_Never(opts, method) == FALSE

\* handle: this.options.enableCors && method === 'OPTIONS'
IsPreflight(opts, method) == opts.enableCors /\ method = "OPTIONS"

\* handleCors: the preflight response
handleCors ==
    LET co == corsOptions
        h1 == AllowOrigin(EmptyMap, co)
        h2 == IF co.methods.def
              THEN SetHeader(h1, "Access-Control-Allow-Methods", Join(co.methods.val)) ELSE h1
        h3 == IF co.allowedHeaders.def
              THEN SetHeader(h2, "Access-Control-Allow-Headers", Join(co.allowedHeaders.val))
              ELSE h2
        h4 == IF Len(co.exposedHeaders) > 0
              THEN SetHeader(h3, "Access-Control-Expose-Headers", Join(co.exposedHeaders))
              ELSE h3
        h5 == IF co.credentials
              THEN SetHeader(h4, "Access-Control-Allow-Credentials", "true") ELSE h4
        h6 == IF co.maxAge # 0
              THEN SetHeader(h5, "Access-Control-Max-Age", ToString(co.maxAge)) ELSE h5
    IN [kind |-> "response", status |-> 204, body |-> [error |-> "none"], headers |-> h6]

\* applyCorsHeaders
applyCorsHeaders(resp) ==
    LET co == corsOptions
        h1 == AllowOrigin(resp.headers, co)
        h2 == IF Len(co.exposedHeaders) > 0
              THEN SetHeader(h1, "Access-Control-Expose-Headers", Join(co.exposedHeaders))
              ELSE h1
        h3 == IF co.credentials
              THEN SetHeader(h2, "Access-Control-Allow-Credentials", "true") ELSE h2
    IN [resp EXCEPT !.headers = h3]

\* the characters of a path as one string
RECURSIVE PathString(_)
PathString(p) == IF p = <<>> THEN "" ELSE p[1] \o PathString(Tail(p))

NotFoundResponse(method, path) ==
    Response(404, [error |-> "Not Found",
                   message |-> "No handler found for " \o method \o " " \o PathString(path)])

PluginDisabledResponse(name) ==
    Response(503, [error |-> "Plugin Disabled",
                   message |-> "Plugin '" \o name \o "' is currently disabled"])

\* defaultErrorHandler
defaultErrorHandler(error) ==
    IF error.type = "PluginRouteError"
    THEN Response(IF error.statusCode # 0 THEN error.statusCode ELSE 500,
                  [error |-> error.type, code |-> error.code])
    ELSE Response(500, [error |-> "Internal Server Error",
                        message |-> "An unexpected error occurred"])

\* the catch block of handle: `return this.options.errorHandler(error, request)`;
\* a custom handler is caller code, it returns a response or throws itself
CatchOutcomes(opts, error) ==
    IF opts.errorHandler = "default"
    THEN {defaultErrorHandler(error)}
    ELSE {Response(500, [error |-> "Custom error"]), Thrown(PlainError)}

Done(r, outcome) == [r EXCEPT !.pc = "done", !.outcome = outcome]

\* a handle whose lookup drops a path from the route table when it finds a
\* handler without an owning plugin
StartRequest_PrunesOnLookup(path, method) ==
    /\ req.pc = "idle"
    /\ LET r0 == [pc |-> "start", path |-> path, method |-> method,
                  middlewares |-> <<>>, handler |-> Undef, plugin |-> Undef,
                  params |-> EmptyMap, context |-> Undef,
                  idx |-> 0, frames |-> <<>>, log |-> <<>>,
                  result |-> Undef, outcome |-> Undef]
           g  == getHandler(Reg, path, method)
       IN  IF IsPreflight(ropts, method)
           THEN req' = Done(r0, handleCors)
           ELSE IF g.kind = "null"
           THEN req' = Done(r0, NotFoundResponse(method, path))
           ELSE IF g.kind = "throw"
           THEN \E o \in CatchOutcomes(ropts, g.error) :
                   req' = Done([r0 EXCEPT !.result = Some(Thrown(g.error))], o)
           ELSE IF ~g.plugin.enabled
           THEN req' = Done([r0 EXCEPT !.plugin = Some(g.plugin.name)],
                            PluginDisabledResponse(g.plugin.name))
           ELSE req' = [r0 EXCEPT
                          !.pc = IF ropts.enableMiddleware /\ Len(g.middlewares) > 0
                                 THEN "chain" ELSE "route",
                          !.middlewares = g.middlewares,
                          !.handler = Some(g.handler),
                          !.params = g.params,
                          !.plugin = Some(g.plugin.name)]
    /\ routes' = IF getHandler(Reg, path, method).kind = "throw"
                 THEN MapDel(routes, sanitizePath(path)) ELSE routes
    /\ UNCHANGED <<plugins, middlewares, pluginRoutes, pluginMiddlewares,
                   last, registered, registeredMiddlewares, ropts, mwvars>>

\* handle, up to the first call of plugin code
StartRequest(path, method) ==
    /\ req.pc = "idle"
    /\ LET r0 == [pc |-> "start", path |-> path, method |-> method,
                  middlewares |-> <<>>, handler |-> Undef, plugin |-> Undef,
                  params |-> EmptyMap, context |-> Undef,
                  idx |-> 0, frames |-> <<>>, log |-> <<>>,
                  result |-> Undef, outcome |-> Undef]
           g  == getHandler(Reg, path, method)
       IN  IF IsPreflight(ropts, method)
           THEN req' = Done(r0, handleCors)
           ELSE IF g.kind = "null"
           THEN req' = Done(r0, NotFoundResponse(method, path))
           ELSE IF g.kind = "throw"
           THEN \E o \in CatchOutcomes(ropts, g.error) :
                   req' = Done([r0 EXCEPT !.result = Some(Thrown(g.error))], o)
           ELSE IF ~g.plugin.enabled
           THEN req' = Done([r0 EXCEPT !.plugin = Some(g.plugin.name)],
                            PluginDisabledResponse(g.plugin.name))
           ELSE req' = [r0 EXCEPT
                          !.pc = IF ropts.enableMiddleware /\ Len(g.middlewares) > 0
                                 THEN "chain" ELSE "route",
                          !.middlewares = g.middlewares,
                          !.handler = Some(g.handler),
                          !.params = g.params,
                          !.plugin = Some(g.plugin.name)]
    /\ UNCHANGED <<regvars, last, registered, registeredMiddlewares, ropts, mwvars>>

\* a chain that goes on to the next middleware after one returned without
\* calling next()
NextMiddleware_IgnoresShort ==
    /\ req.pc = "chain"
    /\ IF req.idx >= Len(req.middlewares)
       THEN req' = [req EXCEPT !.pc = "route"]
       ELSE LET fn == req.middlewares[req.idx + 1] IN
            \E b \in MiddlewareBehaviours(fn) :
               CASE b = "pass" ->
                      req' = [req EXCEPT !.idx = @ + 1,
                                         !.frames = Append(@, fn),
                                         !.log = Append(@, <<fn, "before">>)]
                 [] b = "short" ->
                      req' = [req EXCEPT !.idx = @ + 1,
                                         !.log = Append(@, <<fn, "short">>),
                                         !.result = Some(Response(401, [error |-> "Unauthorized"]))]
                 [] b = "throw" ->
                      req' = [req EXCEPT !.idx = @ + 1,
                                         !.pc = "unwind",
                                         !.log = Append(@, <<fn, "throw">>),
                                         !.result = Some(Thrown(PlainError))]
    /\ UNCHANGED <<regvars, last, registered, registeredMiddlewares, ropts, mwvars>>

\* a chain whose catch block swallows the exception of a middleware and goes on
NextMiddleware_SwallowsThrow ==
    /\ req.pc = "chain"
    /\ IF req.idx >= Len(req.middlewares)
       THEN req' = [req EXCEPT !.pc = "route"]
       ELSE LET fn == req.middlewares[req.idx + 1] IN
            \E b \in MiddlewareBehaviours(fn) :
               CASE b = "pass" ->
                      req' = [req EXCEPT !.idx = @ + 1,
                                         !.frames = Append(@, fn),
                                         !.log = Append(@, <<fn, "before">>)]
                 [] b = "short" ->
                      req' = [req EXCEPT !.idx = @ + 1,
                                         !.pc = "unwind",
                                         !.log = Append(@, <<fn, "short">>),
                                         !.result = Some(Response(401, [error |-> "Unauthorized"]))]
                 [] b = "throw" ->
                      req' = [req EXCEPT !.idx = @ + 1,
                                         !.log = Append(@, <<fn, "throw">>)]
    /\ UNCHANGED <<regvars, last, registered, registeredMiddlewares, ropts, mwvars>>

\* the frame of a middleware that will call next() again when it is resumed
RetryFrame(fn) == fn \o "+"

\* executeWithMiddleware: one call of next()
NextMiddleware ==
    /\ req.pc = "chain"
    /\ IF req.idx >= Len(req.middlewares)
       THEN req' = [req EXCEPT !.pc = "route"]
       ELSE LET fn == req.middlewares[req.idx + 1] IN
            \E b \in MiddlewareBehaviours(fn) :
               CASE b = "pass" ->
                      req' = [req EXCEPT !.idx = @ + 1,
                                         !.frames = Append(@, fn),
                                         !.log = Append(@, <<fn, "before">>)]
                 [] b = "twice" ->
                      req' = [req EXCEPT !.idx = @ + 1,
                                         !.frames = Append(@, RetryFrame(fn)),
                                         !.log = Append(@, <<fn, "before">>)]
                 [] b = "short" ->
                      req' = [req EXCEPT !.idx = @ + 1,
                                         !.pc = "unwind",
                                         !.log = Append(@, <<fn, "short">>),
                                         !.result = Some(Response(401, [error |-> "Unauthorized"]))]
                 [] b = "throw" ->
                      req' = [req EXCEPT !.idx = @ + 1,
                                         !.pc = "unwind",
                                         !.log = Append(@, <<fn, "throw">>),
                                         !.result = Some(Thrown(PlainError))]
    /\ UNCHANGED <<regvars, last, registered, registeredMiddlewares, ropts, mwvars>>

\* what plugin code may throw: a plain Error or one of the plugin error classes
ThrowableErrors ==
    {PlainError,
     PluginValidationError(<<"bad input">>),
     PluginRegistrationError("REGISTRATION_ERROR", <<>>),
     PluginRouteError("ROUTE_ERROR"),
     [PluginRouteError("FORBIDDEN") EXCEPT !.statusCode = 403]}

\* a route handler is plugin code: it returns a response or throws
HandlerOutcomes(h) ==
    {Response(200, [error |-> "none", by |-> h])} \cup {Thrown(e) : e \in ThrowableErrors}

\* executeRoute: the PluginContext it builds from the match
BuiltContext(r) == [params |-> r.params]

\* executeRoute: `match.handler(request)`, the handler gets no second argument
PassedContext(r) == Undef

\* registry.executeRoute: the matched handler is called; it returns or throws
ExecuteRoute ==
    /\ req.pc = "route"
    /\ \E o \in HandlerOutcomes(req.handler.val) :
          req' = [req EXCEPT !.pc = "unwind",
                             !.log = Append(@, <<"handler", req.handler.val.plugin>>),
                             !.context = PassedContext(req),
                             !.result = Some(o)]
    /\ UNCHANGED <<regvars, last, registered, registeredMiddlewares, ropts, mwvars>>

\* the innermost middleware awaiting next() resumes: with a response it runs
\* its code after next() and returns the response; an exception passes through
ResumeMiddleware ==
    /\ req.pc = "unwind"
    /\ req.frames # <<>>
    /\ LET top == req.frames[Len(req.frames)] IN
       IF top \in MiddlewareFns
       THEN req' = [req EXCEPT !.frames = SubSeq(@, 1, Len(@) - 1),
                               !.log = IF req.result.val.kind = "response"
                                       THEN Append(@, <<top, "after">>) ELSE @]
       ELSE LET fn == CHOOSE f \in MiddlewareFns : RetryFrame(f) = top IN
            IF req.result.val.kind = "response"
            THEN \* its second call of next(): currentIndex is where the chain left it
                 req' = [req EXCEPT !.pc = "chain",
                                    !.frames = Append(SubSeq(@, 1, Len(@) - 1), fn),
                                    !.log = Append(@, <<fn, "again">>)]
            ELSE req' = [req EXCEPT !.frames = SubSeq(@, 1, Len(@) - 1)]
    /\ UNCHANGED <<regvars, last, registered, registeredMiddlewares, ropts, mwvars>>

\* back in handle: CORS headers on the response, or the catch block
Complete ==
    /\ req.pc = "unwind"
    /\ req.frames = <<>>
    /\ IF req.result.val.kind = "response"
       THEN req' = Done(req, IF ropts.enableCors
                             THEN applyCorsHeaders(req.result.val)
                             ELSE req.result.val)
       ELSE \E o \in CatchOutcomes(ropts, req.result.val.error) : req' = Done(req, o)
    /\ UNCHANGED <<regvars, last, registered, registeredMiddlewares, ropts, mwvars>>

\* the caller has the outcome of handle
Return ==
    /\ req.pc = "done"
    /\ req' = Idle
    /\ UNCHANGED <<regvars, last, registered, registeredMiddlewares, ropts, mwvars>>

-----------------------------------------------------------------------------
(* Specifications *)

vars == <<plugins, routes, middlewares, pluginRoutes, pluginMiddlewares, last,
          registered, registeredMiddlewares, ropts, req, chain, now, store, arrivals>>

\* no chain is executing and the rate limiter's store is the empty Map
InitChain ==
    /\ chain = [pc |-> "idle"]
    /\ now = 0
    /\ store = EmptyMap
    /\ arrivals = <<>>

InitRegistry ==
    /\ plugins = EmptyMap
    /\ routes = EmptyMap
    /\ middlewares = <<>>
    /\ pluginRoutes = <<>>
    /\ pluginMiddlewares = EmptyMap
    /\ last = Call("new", "", NoError, TRUE)
    /\ registered = EmptyMap
    /\ registeredMiddlewares = EmptyMap
    /\ InitChain

Init ==
    /\ InitRegistry
    /\ ropts = DefaultRouterOptions
    /\ req = Idle

AllNames == ValidNames \cup {"a"}

\* the registry and its administrative calls
Next ==
    \/ \E d \in Descriptors : Register(d)
    \/ \E n \in AllNames : Unregister(n)
    \/ \E n \in AllNames : EnablePlugin(n)
    \/ \E n \in AllNames : DisablePlugin(n)
    \/ Clear
    \/ GetStats

Spec == Init /\ [][Next]_vars

\* The router in front of the registry: requests are handled one at a time,
\* administrative calls happen between requests.
RouterDescriptors ==
    {D_users1(Undef), D_blogs1(Undef), D_blogs2(Undef), WithHooks(D_auth1(Undef), H_request)}

RouterRequestPaths == {P_a, P_b}

InitRouter ==
    /\ InitRegistry
    /\ ropts \in RouterOptions
    /\ req = Idle

Admin ==
    /\ req.pc = "idle"
    /\ \/ \E d \in RouterDescriptors : Register(d)
       \/ \E n \in ValidNames : Unregister(n)
       \/ \E n \in ValidNames : EnablePlugin(n)
       \/ \E n \in ValidNames : DisablePlugin(n)

NextRouter ==
    \/ Admin
    \/ \E p \in RouterRequestPaths, m \in RequestMethods : StartRequest(p, m)
    \/ NextMiddleware
    \/ ExecuteRoute
    \/ ResumeMiddleware
    \/ Complete
    \/ Return

SpecRouter == InitRouter /\ [][NextRouter]_vars

\* Registrations whose routes meet on sanitized paths: '/a' and '/a/' across
\* plugins and within one plugin
ConflictDescriptors ==
    {D_users1(Undef), D_blogs1(Undef), D_blogs2(Undef), D_auth1(Undef), D_blogs3(Undef),
     Descriptor("auth", "1.0.0", <<R(P_dbl_a, <<"GET">>), R(P_b, <<"GET">>)>>, Undef, Undef)}

NextConflicts ==
    \/ \E d \in ConflictDescriptors : Register(d)
    \/ \E n \in ValidNames : Unregister(n)

SpecConflicts == Init /\ [][NextConflicts]_vars

\* The router serving a plugin one of whose middlewares may call next() twice
RetryDescriptors == {D_users3(Undef), D_blogs1(Undef)}

NextRetry ==
    \/ (req.pc = "idle" /\ \E d \in RetryDescriptors : Register(d))
    \/ (req.pc = "idle" /\ \E n \in ValidNames : Unregister(n))
    \/ \E p \in RouterRequestPaths, m \in RequestMethods : StartRequest(p, m)
    \/ NextMiddleware
    \/ ExecuteRoute
    \/ ResumeMiddleware
    \/ Complete
    \/ Return

InitRetry ==
    /\ InitRegistry
    /\ ropts = DefaultRouterOptions
    /\ req = Idle

SpecRetry == InitRetry /\ [][NextRetry]_vars

\* The same with the awaits of handle resumed: the middlewares and handlers
\* terminate and the event loop runs every continuation that is ready.
SpecRouterLive ==
    SpecRouter /\ WF_vars(NextMiddleware \/ ExecuteRoute \/ ResumeMiddleware \/ Complete)

\* Requests and registry mutations interleaved: register and unregister are
\* synchronous calls, so each of them is one step; a request in flight is
\* suspended at its awaits (inside a middleware before it calls next(), and
\* from the call of the handler on) and a mutation may happen there; from the
\* lookup to the first middleware, and from the last call of next() to the
\* handler, the code runs without an await. A request keeps the match its
\* lookup returned.
ConcurrentDescriptors ==
    {D_users1(Undef), D_blogs2(Undef), WithHooks(D_auth1(Undef), H_request)}

InitConcurrent ==
    /\ InitRegistry
    /\ ropts = DefaultRouterOptions
    /\ req = Idle

Mutation ==
    \/ \E d \in ConcurrentDescriptors : Register(d)
    \/ \E n \in ValidNames : Unregister(n)

\* no request is running synchronous code
AtAwait ==
    \/ req.pc \in {"idle", "unwind", "done"}
    \/ (req.pc = "chain" /\ req.frames # <<>>)

NextConcurrent ==
    \/ (AtAwait /\ Mutation)
    \/ \E p \in RouterRequestPaths, m \in RequestMethods : StartRequest(p, m)
    \/ NextMiddleware
    \/ ExecuteRoute
    \/ ResumeMiddleware
    \/ Complete
    \/ Return

SpecConcurrent == InitConcurrent /\ [][NextConcurrent]_vars

-----------------------------------------------------------------------------
(* Claims on the registry *)

\* the registry value of the next state
RegNext == [plugins |-> plugins', routes |-> routes', middlewares |-> middlewares',
            pluginRoutes |-> pluginRoutes', pluginMiddlewares |-> pluginMiddlewares']

\* C1: a register call that fails with ROUTE_CONFLICT leaves the plugin map,
\* the route table, the middleware list and both ownership maps as they were
\* immediately before the call.
C1_RegisterAtomic ==
    [][(last'.op = "register" /\ last'.err.code = "ROUTE_CONFLICT")
        => UNCHANGED regvars]_vars

\* the plugins that own a (path, method) entry of the route table: they have a
\* record, their ownership set holds the path, and the handler is theirs
OwnersOf(p, m) ==
    { n \in DOMAIN plugins :
        /\ OMapHas(pluginRoutes, n)
        /\ p \in OMapGet(pluginRoutes, n)
        /\ routes[p][m].plugin = n }

UniqueOwners ==
    \A p \in DOMAIN routes : \A m \in DOMAIN routes[p] :
        Cardinality(OwnersOf(p, m)) = 1

\* C2: in every reachable state every (sanitized path, method) pair of the
\* route table is owned by exactly one registered plugin (plugin names are the
\* keys of one map, so no two records share a name), and a register call whose
\* descriptor declares a pair already in the table fails with a
\* PluginRegistrationError.
C2_Uniqueness ==
    /\ UniqueOwners
    /\ [][/\ UniqueOwners'
          /\ \A d \in Descriptors :
                (/\ Register(d)
                 /\ \E t \in DeclaredRoutes(d) :
                       t.path \in DOMAIN routes /\ t.method \in DOMAIN routes[t.path])
                => last'.err.type = "PluginRegistrationError"]_vars

\* C3: for every (path, method) registered by a plugin P that is still
\* registered, getHandler returns a match whose plugin is P's record and whose
\* handler is the one P registered, also when another plugin registered
\* another method on the same path.
C3_OwnerResolution ==
    \A n \in DOMAIN registered : \A t \in registered[n] :
        LET g == getHandler(Reg, t.path, t.method) IN
        /\ g.kind = "match"
        /\ n \in DOMAIN plugins
        /\ g.plugin = plugins[n]
        /\ g.handler = t.handler

\* the handler getHandler returns, Undef for null or a throw
HandlerAt(r, p, m) ==
    LET g == getHandler(r, p, m) IN
    IF g.kind = "match" THEN Some(g.handler) ELSE Undef

\* C4: unregister(name) returns false and changes nothing for an unknown name;
\* otherwise it returns true, deletes the record, removes the routes and the
\* middleware of that plugin, and every handler registered by another plugin
\* (also for another method on a shared path) is still returned by getHandler.
C4_UnregisterFrame ==
    [][\A n \in AllNames : Unregister(n) =>
        IF n \notin DOMAIN plugins
        THEN last'.ret = FALSE /\ UNCHANGED regvars
        ELSE /\ last'.ret = TRUE
             /\ n \notin DOMAIN plugins'
             /\ \A p \in DOMAIN routes' : \A m \in DOMAIN routes'[p] :
                    routes'[p][m].plugin # n
             /\ \A o \in (DOMAIN registered) \ {n} : \A t \in registered[o] :
                    HandlerAt(Reg, t.path, t.method) = Some(t.handler)
                    => HandlerAt(RegNext, t.path, t.method) = Some(t.handler)]_vars

\* C5: from any reachable state, a successful register(P) followed by
\* unregister(P.name) restores the route table and the middleware list (same
\* entries, same order) to their state before the register call.
C5_RoundTrip ==
    \A d \in Descriptors :
        LET r1 == register(Reg, d) IN
        r1.err = NoError =>
            LET r2 == unregister(r1.reg, d.name).reg IN
            /\ r2.routes = routes
            /\ r2.middlewares = middlewares

\* Request paths of the model
RequestPaths == {P_a, P_b, P_aSlash, P_dbl_a, P_tmpl, P_u1, P_u1x, P_noSlash}

\* the non-empty segments of a sanitized path
Segments(p) == SelectSeq(Split(sanitizePath(p)), LAMBDA seg : seg # <<>>)

IsParamSegment(seg) == Len(seg) > 0 /\ seg[1] = ":"

HasParams(t) == \E i \in 1..Len(Segments(t)) : IsParamSegment(Segments(t)[i])

\* the matching the claim describes: same number of segments, the
\* non-parameter segments equal
TemplateMatches(t, q) ==
    /\ Len(Segments(t)) = Len(Segments(q))
    /\ \A i \in 1..Len(Segments(t)) :
          IsParamSegment(Segments(t)[i]) \/ Segments(t)[i] = Segments(q)[i]

\* each parameter name bound to the request segment at its position
TemplateParams(t, q) ==
    LET ts == Segments(t)
        idx == {i \in 1..Len(ts) : IsParamSegment(ts[i])}
    IN [nm \in {Tail(ts[i]) : i \in idx} |->
          Segments(q)[CHOOSE i \in idx : Tail(ts[i]) = nm]]

\* C7: when a route template with `:param` segments is registered for a
\* method, getHandler of every request path with the same number of segments
\* and equal non-parameter segments returns a match whose params bind each
\* parameter name to the request segment.
C7_TemplateMatching ==
    \A n \in DOMAIN registered : \A t \in registered[n] :
        HasParams(t.path) =>
            \A q \in RequestPaths :
                TemplateMatches(t.path, q) =>
                    LET g == getHandler(Reg, q, t.method) IN
                    /\ g.kind = "match"
                    /\ g.params = TemplateParams(t.path, q)

\* C10: register of a structurally invalid descriptor (the capacity and name
\* checks passed) fails with a PluginValidationError of status 400 before any
\* state is mutated; name collision, route collision and capacity are the only
\* failures reported as PluginRegistrationError.
C10_ValidationErrorType ==
    [][\A d \in Descriptors : Register(d) =>
        /\ (/\ ValidationErrors(d) # <<>>
            /\ Cardinality(DOMAIN plugins) < maxPlugins
            /\ d.name \notin DOMAIN plugins)
           => /\ last'.err.type = "PluginValidationError"
              /\ last'.err.statusCode = 400
              /\ UNCHANGED regvars
        /\ last'.err.type = "PluginRegistrationError"
           => last'.err.code \in
                {"PLUGIN_ALREADY_EXISTS", "ROUTE_CONFLICT", "MAX_PLUGINS_EXCEEDED"}]_vars

-----------------------------------------------------------------------------
(* Claims on the router *)

\* a finished request whose middlewares all called next() and whose handler
\* returned: every middleware logged before and after, the handler in between
ChainCompleted ==
    /\ req.pc = "done"
    /\ Len(req.middlewares) > 0
    /\ Len(req.log) = 2 * Len(req.middlewares) + 1

\* C6: the middleware around a handler run in descending order of their
\* declared priority before the handler and in the reverse order after it,
\* whatever the order they were declared in: with A (priority 10) and
\* B (priority 20) the log is B-before, A-before, handler, A-after, B-after.
C6_PriorityOrder ==
    ChainCompleted =>
        LET n == Len(req.middlewares) IN
        /\ req.log[n + 1][1] = "handler"
        /\ \A i \in 1..n :
              /\ req.log[i][2] = "before"
              /\ req.log[2 * n + 2 - i] = <<req.log[i][1], "after">>
        /\ \A i, j \in 1..n :
              i < j => DeclaredPriority(req.log[i][1]) >= DeclaredPriority(req.log[j][1])

\* the plugins whose successful register call declared the route
RegistrantsOf(path, method) ==
    {n \in DOMAIN registered :
        \E t \in registered[n] : t.path = sanitizePath(path) /\ t.method = method}

InRouteTable(path, method) ==
    /\ sanitizePath(path) \in DOMAIN routes
    /\ method \in DOMAIN routes[sanitizePath(path)]

\* C8: a request for a route of a disabled plugin is answered 503 with a body
\* naming the plugin and neither the handler nor any middleware is invoked;
\* once the plugin is enabled again the request is dispatched to the handler;
\* enabling and disabling leave the route table as it is.
C8_DisabledPlugin ==
    [][/\ \A n \in ValidNames : (EnablePlugin(n) \/ DisablePlugin(n)) => UNCHANGED routes
       /\ \A p \in RouterRequestPaths, m \in RequestMethods :
            (/\ StartRequest(p, m)
             /\ ~(ropts.enableCors /\ m = "OPTIONS")
             /\ InRouteTable(p, m))
            => \A n \in RegistrantsOf(p, m) \cap DOMAIN plugins :
                  IF plugins[n].enabled
                  THEN req'.pc \in {"chain", "route"}
                  ELSE /\ req'.pc = "done"
                       /\ req'.outcome = PluginDisabledResponse(n)
                       /\ req'.log = <<>>]_vars

\* C9: handle never throws or rejects to its caller: every finished request
\* has a Response as its outcome, also when a handler or a middleware threw
\* and also when a custom error handler is configured.
C9_HandleNeverThrows ==
    req.pc = "done" => req.outcome.kind = "response"

-----------------------------------------------------------------------------
(* Claims on registration *)

\* the violations of the fields of a descriptor, each validator asked alone
FieldViolations(d) ==
    ({validatePluginName(d.name), validatePluginVersion(d.version),
      validateRouteConfig(d.routes)}
     \cup (IF d.middlewares.def THEN {validateMiddlewareConfig(d.middlewares.val)} ELSE {})
     \cup (IF d.hooks.def THEN {validateHooks(d.hooks.val)} ELSE {}))
    \ {"true"}

\* a register call that gets as far as validatePluginConfig
ReachesValidation(d) ==
    /\ Register(d)
    /\ Cardinality(DOMAIN plugins) < maxPlugins
    /\ d.name \notin DOMAIN plugins

\* C11: validatePluginConfig asks the name, version, routes, middlewares and
\* hooks rules independently and raises one error whose message holds the
\* violation of every failing field; name "a" with version "1.0" gives one
\* error holding both violations.
C11_ValidationAggregation ==
    [][\A d \in Descriptors :
         ReachesValidation(d) =>
           LET e == validatePluginConfig(d) IN
           /\ (FieldViolations(d) = {}) <=> (e = NoError)
           /\ FieldViolations(d) # {} =>
                /\ e.type = "PluginValidationError"
                /\ {e.violations[i] : i \in 1..Len(e.violations)} = FieldViolations(d)
                /\ Len(e.violations) = Cardinality(FieldViolations(d))
                /\ last'.err.violations = e.violations
           /\ (d.name = "a" /\ d.version = "1.0") =>
                /\ \E i \in 1..Len(e.violations) :
                      e.violations[i] = "Plugin name must be between 3 and 50 characters"
                /\ \E i \in 1..Len(e.violations) :
                      e.violations[i] = "Plugin version must follow semantic versioning (e.g., 1.0.0)"]_vars

\* a register of the descriptor with name "a" and version "1.0" has failed
\* with both violations in its error
C11_Witness ==
    /\ last.op = "register" /\ last.arg = "a"
    /\ Len(last.err.violations) = 2
    /\ last.err.violations[1] = "Plugin name must be between 3 and 50 characters"
    /\ last.err.violations[2] = "Plugin version must follow semantic versioning (e.g., 1.0.0)"

\* C12 as stated: a register under the name of a plugin the registry holds
\* fails with PLUGIN_ALREADY_EXISTS and changes nothing.
C12_NotIdempotent ==
    [][\A d \in Descriptors :
         (Register(d) /\ d.name \in DOMAIN plugins) =>
           /\ last'.err = PluginRegistrationError("PLUGIN_ALREADY_EXISTS", <<>>)
           /\ UNCHANGED regvars]_vars

\* C12, amended: a register under the name of a plugin the registry holds
\* always fails and changes nothing; below capacity the error is
\* PLUGIN_ALREADY_EXISTS, also for a valid and conflict-free descriptor; at
\* capacity the capacity check comes first and it is MAX_PLUGINS_EXCEEDED.
C12_NotIdempotentBelowCapacity ==
    [][\A d \in Descriptors :
         (Register(d) /\ d.name \in DOMAIN plugins) =>
           /\ UNCHANGED regvars
           /\ last'.err = IF Cardinality(DOMAIN plugins) < maxPlugins
                          THEN PluginRegistrationError("PLUGIN_ALREADY_EXISTS", <<>>)
                          ELSE PluginRegistrationError("MAX_PLUGINS_EXCEEDED", <<>>)]_vars

\* a register was refused as a duplicate although a valid descriptor of that
\* name declares no route the table holds
C12_Witness ==
    /\ last.op = "register"
    /\ last.err.code = "PLUGIN_ALREADY_EXISTS"
    /\ last.arg \in DOMAIN plugins
    /\ \E d \in ValidDescriptors :
          /\ d.name = last.arg
          /\ \A t \in DeclaredRoutes(d) :
                ~(t.path \in DOMAIN routes /\ t.method \in DOMAIN routes[t.path])

\* C13: the registry never holds more than maxPlugins records; a register
\* made when it holds maxPlugins fails with MAX_PLUGINS_EXCEEDED whatever the
\* descriptor (duplicate name, invalid) and changes nothing; below capacity
\* a taken name is refused before the descriptor is validated, and an invalid
\* descriptor is refused before its routes are compared with the table.
C13_Capacity ==
    /\ [](Cardinality(DOMAIN plugins) <= maxPlugins)
    /\ [][\A d \in Descriptors :
            /\ (Register(d) /\ Cardinality(DOMAIN plugins) >= maxPlugins) =>
                  /\ last'.err = PluginRegistrationError("MAX_PLUGINS_EXCEEDED", <<>>)
                  /\ UNCHANGED regvars
            /\ (Register(d) /\ Cardinality(DOMAIN plugins) < maxPlugins
                            /\ d.name \in DOMAIN plugins) =>
                  last'.err.code = "PLUGIN_ALREADY_EXISTS"
            /\ (ReachesValidation(d) /\ FieldViolations(d) # {}) =>
                  /\ last'.err.code \notin {"ROUTE_CONFLICT", "none"}
                  /\ last'.err.violations # <<>>
                  /\ UNCHANGED regvars]_vars

\* a full registry has refused a register under a name it holds
C13_Witness ==
    /\ Cardinality(DOMAIN plugins) = maxPlugins
    /\ last.op = "register"
    /\ last.err.code = "MAX_PLUGINS_EXCEEDED"
    /\ last.arg \in DOMAIN plugins

\* the descriptor with every failing hook replaced by one that returns
WithOkHooks(d) ==
    [d EXCEPT !.hooks = Some([i \in 1..Len(d.hooks.val) |->
                                IF d.hooks.val[i].fn \in {"throw", "reject"}
                                THEN Hook(d.hooks.val[i].name, "ok")
                                ELSE d.hooks.val[i]])]

HasFailingHook(d) ==
    /\ d.hooks.def
    /\ \E i \in 1..Len(d.hooks.val) : d.hooks.val[i].fn \in {"throw", "reject"}

\* the calls of a hook log, without what the hooks did
HookCalls(log) == [i \in 1..Len(log) |-> [hook |-> log[i].hook, args |-> log[i].args]]

\* C14: an onInit or onRouteRegister hook that throws or returns a rejected
\* promise does not change the outcome of register: the call ends as it ends
\* with hooks that succeed (it returns when that one returns), with the same
\* plugin record, route table and middleware list, and the same hooks called.
C14_HookIsolation ==
    [][\A d \in Descriptors :
         (Register(d) /\ HasFailingHook(d)) =>
           LET ok == register(Reg, WithOkHooks(d)) IN
           /\ RegNext = ok.reg
           /\ last'.err = ok.err
           /\ HookCalls(last'.hooks) = HookCalls(ok.hooks)]_vars

\* a register has returned although its onRouteRegister and onInit hooks threw
C14_Witness ==
    /\ last.op = "register"
    /\ last.err = NoError
    /\ last.arg \in DOMAIN plugins
    /\ \E i \in 1..Len(last.hooks) : last.hooks[i].hook = "onInit" /\ last.hooks[i].did = "throw"
    /\ \E i \in 1..Len(last.hooks) :
          last.hooks[i].hook = "onRouteRegister" /\ last.hooks[i].did = "throw"

\* C15: on a successful register onInit fires exactly once, after the record,
\* the routes and the middleware are stored, and only after it
\* onRouteRegister(path, method) fires, exactly once for every registered
\* (sanitized path, method) pair.
C15_HookOrder ==
    [][\A d \in Descriptors :
         (Register(d) /\ last'.err = NoError /\ d.hooks.def) =>
           LET log == HookCalls(last'.hooks) IN
           /\ HookFn(d, "onInit").def =>
                Cardinality({i \in 1..Len(log) : log[i].hook = "onInit"}) = 1
           /\ HookFn(d, "onRouteRegister").def =>
                \A t \in DeclaredRoutes(d) :
                   Cardinality({i \in 1..Len(log) :
                                  log[i] = [hook |-> "onRouteRegister",
                                            args |-> <<t.path, t.method>>]}) = 1
           /\ \A i, j \in 1..Len(log) :
                 (log[i].hook = "onInit" /\ log[j].hook = "onRouteRegister") => i < j]_vars

-----------------------------------------------------------------------------
(* Claims on dispatch *)

\* C16: with CORS enabled an OPTIONS request is answered 204 with the
\* configured Access-Control-Allow-* headers and the route table is not
\* consulted: no handler and no middleware is invoked, whatever routes are
\* registered and whether or not their plugin is enabled.
C16_CorsPreflight ==
    [][\A p \in RouterRequestPaths :
         (StartRequest(p, "OPTIONS") /\ ropts.enableCors) =>
           /\ req'.pc = "done"
           /\ req'.outcome.kind = "response"
           /\ req'.outcome.status = 204
           /\ req'.outcome.headers =
                [h \in {"Access-Control-Allow-Origin", "Access-Control-Allow-Methods",
                        "Access-Control-Allow-Headers", "Access-Control-Allow-Credentials",
                        "Access-Control-Max-Age"} |->
                   CASE h = "Access-Control-Allow-Origin" -> "*"
                     [] h = "Access-Control-Allow-Methods" ->
                          "GET, POST, PUT, DELETE, PATCH, HEAD, OPTIONS"
                     [] h = "Access-Control-Allow-Headers" ->
                          "Content-Type, Authorization, X-Requested-With"
                     [] h = "Access-Control-Allow-Credentials" -> "true"
                     [] h = "Access-Control-Max-Age" -> "86400"]
           /\ req'.log = <<>>
           /\ ~req'.handler.def
           /\ ~req'.plugin.def]_vars

\* a preflight was answered 204 while an OPTIONS route of a disabled plugin
\* is registered on the path
C16_Witness ==
    /\ req.pc = "done" /\ req.method = "OPTIONS"
    /\ req.outcome.kind = "response" /\ req.outcome.status = 204
    /\ InRouteTable(req.path, "OPTIONS")
    /\ \E n \in RegistrantsOf(req.path, "OPTIONS") \cap DOMAIN plugins : ~plugins[n].enabled

\* the answer of handle to a request without a registered handler
NotFoundAnswer(p, m) ==
    /\ req'.pc = "done"
    /\ req'.outcome.kind = "response"
    /\ req'.outcome.status = 404
    /\ req'.outcome.body =
         [error |-> "Not Found",
          message |-> "No handler found for " \o m \o " " \o PathString(p)]
    /\ req'.log = <<>>
    /\ ~req'.handler.def

\* C17 as stated: a request whose (path, method) has no registered handler is
\* answered 404 with body {error: "Not Found", message: "No handler found for
\* <METHOD> <path>"}, also when the path is registered for other methods, and
\* no handler or middleware is invoked.
C17_NotFound ==
    [][\A p \in RouterRequestPaths, m \in RequestMethods :
         (StartRequest(p, m) /\ ~InRouteTable(p, m)) => NotFoundAnswer(p, m)]_vars

\* C17, amended: the same for every request that is not a CORS preflight
\* (OPTIONS with CORS enabled, which is answered 204 before the lookup); no
\* request is ever answered 405.
C17_NotFoundExceptPreflight ==
    [][\A p \in RouterRequestPaths, m \in RequestMethods :
         /\ (StartRequest(p, m) /\ ~InRouteTable(p, m) /\ ~(ropts.enableCors /\ m = "OPTIONS"))
               => NotFoundAnswer(p, m)
         /\ (StartRequest(p, m) /\ req'.pc = "done" /\ req'.outcome.kind = "response")
               => req'.outcome.status # 405]_vars

\* a request was answered 404 for a path that is registered for another method
C17_Witness ==
    /\ req.pc = "done"
    /\ req.outcome.kind = "response" /\ req.outcome.status = 404
    /\ sanitizePath(req.path) \in DOMAIN routes
    /\ DOMAIN routes[sanitizePath(req.path)] # {}
    /\ req.method \notin DOMAIN routes[sanitizePath(req.path)]

\* C18: executeRoute invokes the matched handler with a context value whose
\* params are the path parameters extracted for this match.
C18_ContextPassing ==
    [][ExecuteRoute =>
         /\ req'.context.def
         /\ req'.context.val.params = req.params]_vars

\* the error classes that declare a status
PluginErrorTypes == {"PluginValidationError", "PluginRegistrationError", "PluginRouteError"}

\* C19: with the default error handler, an exception raised during dispatch
\* that is a plugin error with a declared status is answered with that status
\* and a body naming the error and its code; every other exception is answered
\* 500 "Internal Server Error" with the fixed message.
C19_ErrorTranslation ==
    (/\ req.pc = "done"
     /\ ropts.errorHandler = "default"
     /\ req.result.def
     /\ req.result.val.kind = "throw")
    => LET error == req.result.val.error IN
       /\ req.outcome.kind = "response"
       /\ IF error.type \in PluginErrorTypes
          THEN /\ req.outcome.status = error.statusCode
               /\ req.outcome.body = [error |-> error.type, code |-> error.code]
          ELSE /\ req.outcome.status = 500
               /\ req.outcome.body = [error |-> "Internal Server Error",
                                     message |-> "An unexpected error occurred"]

-----------------------------------------------------------------------------
(* Claims on the statistics *)

\* the figures the history of successful register calls gives
ExpectedStats ==
    [totalPlugins |-> Cardinality(DOMAIN registered),
     enabledPlugins |-> Cardinality({n \in DOMAIN registered :
                                        n \in DOMAIN plugins /\ plugins[n].enabled}),
     totalRoutes |-> SumOver(DOMAIN registered,
                             [n \in DOMAIN registered |-> Cardinality(registered[n])]),
     totalMiddlewares |-> SumOver(DOMAIN registeredMiddlewares, registeredMiddlewares)]

\* C20: after any sequence of register, unregister, enablePlugin,
\* disablePlugin and clear calls, failed register calls included, getStats
\* reports the number of plugins registered and not since unregistered, the
\* number of those that are enabled, the number of (path, method) handlers and
\* the number of middleware entries they registered; getStats changes no state.
C20_StatsConsistency ==
    /\ [](getStats(Reg) = ExpectedStats)
    /\ [][GetStats => (UNCHANGED regvars /\ last'.stats = Some(ExpectedStats))]_vars

-----------------------------------------------------------------------------
(* Claims on the request-time hooks *)

\* the plugin served by the router declares the hook
DeclaresHook(name, hookName) ==
    \E d \in RouterDescriptors : d.name = name /\ HookFn(d, hookName).def

\* the positions of an entry in the log of plugin code the request ran
LogPositions(entry) == {i \in 1..Len(req.log) : req.log[i] = entry}

\* C21: when a request is dispatched to a route of plugin P, P's onRequest
\* hook is invoked before the handler runs, onResponse after the response is
\* produced, and onError when the handler or a middleware raises.
C21_RequestHooks ==
    (/\ req.pc = "done"
     /\ req.handler.def
     /\ req.plugin.val \in DOMAIN registered)
    => LET P == req.plugin.val
           h == LogPositions(<<"handler", req.handler.val.plugin>>)
       IN /\ (DeclaresHook(P, "onRequest") /\ h # {})
                => \E i \in LogPositions(<<"hook", "onRequest">>) : \A j \in h : i < j
          /\ (DeclaresHook(P, "onResponse") /\ req.result.val.kind = "response")
                => LogPositions(<<"hook", "onResponse">>) # {}
          /\ (DeclaresHook(P, "onError") /\ req.result.val.kind = "throw")
                => LogPositions(<<"hook", "onError">>) # {}

-----------------------------------------------------------------------------
(* Claims on the ownership bookkeeping *)

\* the plugins that have a record and hold the path in their ownership set
RecordedOwners(path) ==
    {pluginRoutes[i].key : i \in {k \in 1..Len(pluginRoutes) : path \in pluginRoutes[k].value}}
       \cap DOMAIN plugins

\* C23: in every reachable state every path of the route table is in the
\* ownership set of at least one plugin that has a record, every plugin record
\* has an ownership set, and getHandler never raises PLUGIN_NOT_FOUND.
C23_OwnershipBookkeeping ==
    /\ \A p \in DOMAIN routes : RecordedOwners(p) # {}
    /\ \A n \in DOMAIN plugins : OMapHas(pluginRoutes, n)
    /\ \A p \in RequestPaths, m \in VALID_HTTP_METHODS :
          getHandler(Reg, p, m).kind # "throw"

\* the (path, method) entries of the route table whose handler is of the plugin
TableEntriesOf(name) ==
    {[path |-> p, method |-> m, handler |-> routes[p][m]] :
        <<p, m>> \in {pm \in (DOMAIN routes) \X VALID_HTTP_METHODS :
                        /\ pm[2] \in DOMAIN routes[pm[1]]
                        /\ routes[pm[1]][pm[2]].plugin = name}}

\* the registry as one lookup sees it is the state before or after whole
\* register and unregister calls
NoTornView ==
    /\ \A p \in DOMAIN routes : \A m \in DOMAIN routes[p] :
          LET n == routes[p][m].plugin IN
          /\ n \in DOMAIN plugins
          /\ OMapHas(pluginRoutes, n)
          /\ p \in OMapGet(pluginRoutes, n)
    /\ \A n \in ValidNames :
          \/ TableEntriesOf(n) = {}
          \/ \E d \in ConcurrentDescriptors : d.name = n /\ TableEntriesOf(n) = DeclaredRoutes(d)

\* C22: when request dispatches interleave with register and unregister
\* calls, every route lookup sees the registry entirely before or entirely
\* after each mutation: no handler whose owning plugin record or ownership
\* entry is missing, and never only part of a plugin's routes.
C22_NoTornView ==
    [][(\E p \in RouterRequestPaths, m \in RequestMethods : StartRequest(p, m))
          => NoTornView]_vars

-----------------------------------------------------------------------------
(* Claims on the middleware chain *)

\* the routes list the plugin author configured for the middleware applies to the path
ConfiguredFor(fn, sp) ==
    LET c == ConfigOf(fn) IN
    \/ ~c.routes.def
    \/ \E i \in 1..Len(c.routes.val) : StartsWith(sp, sanitizePath(c.routes.val[i]))

\* C24: the middleware list of a RouteMatch contains a registered middleware
\* if and only if its configured routes list is absent or one of its sanitized
\* route prefixes is a prefix of the sanitized request path.
C24_MiddlewareRouteFilter ==
    \A p \in RequestPaths, m \in VALID_HTTP_METHODS :
        LET g == getHandler(Reg, p, m) IN
        g.kind = "match" =>
            \A i \in 1..Len(middlewares) :
                (\E j \in 1..Len(g.middlewares) : g.middlewares[j] = middlewares[i])
                    <=> ConfiguredFor(middlewares[i], sanitizePath(p))

\* the log of a request in which the k-th invoked middleware ended the chain:
\* the k - 1 middlewares before it ran their code before next(), nothing was
\* invoked after it, and what follows is their code after next() in reverse
EndedAt(k, how) ==
    /\ req.log[k][2] = how
    /\ req.idx = k
    /\ \A j \in 1..(k - 1) : req.log[j] = <<req.middlewares[j], "before">>
    /\ Len(req.log) <= 2 * k - 1
    /\ \A j \in 1..Len(req.log) : req.log[j][1] # "handler"

C26_AbortOnThrow ==
    (req.pc # "idle" /\ \E k \in 1..Len(req.log) : req.log[k][2] = "throw")
    => LET k == CHOOSE i \in 1..Len(req.log) : req.log[i][2] = "throw" IN
       /\ EndedAt(k, "throw")
       /\ Len(req.log) = k
       /\ req.result = Some(Thrown(PlainError))
       /\ req.pc = "done" =>
             /\ req.outcome \in CatchOutcomes(ropts, PlainError)
             /\ ropts.errorHandler = "default" => req.outcome = defaultErrorHandler(PlainError)

\* a request aborted by the exception of a middleware that earlier middlewares
\* were awaiting, answered by the default error handler
C26_Witness ==
    /\ req.pc = "done"
    /\ ropts.errorHandler = "default"
    /\ \E k \in 2..Len(req.log) : req.log[k][2] = "throw"
    /\ req.outcome.kind = "response" /\ req.outcome.status = 500
    /\ req.outcome.kind = "response" /\ req.outcome.status = 500

-----------------------------------------------------------------------------
(* Claims on the request state machine *)

\* the state of the request state machine a request is in; START and
\* ROUTE_LOOKUP are passed within the first synchronous stretch of handle
RequestState(r) ==
    CASE r.pc = "idle" -> "IDLE"
      [] r.pc \in {"chain", "route", "unwind"} -> "DISPATCH"
      [] r.pc = "done" /\ r.outcome.kind = "throw" -> "THROWN"
      [] r.pc = "done" /\ r.outcome.kind = "response" /\ r.result.def ->
            IF r.result.val.kind = "response" THEN "SUCCESS_RESPONSE" ELSE "ERROR_RESPONSE"
      [] r.pc = "done" /\ r.outcome.kind = "response" /\ ~r.result.def ->
            IF r.plugin.def THEN "PLUGIN_DISABLED"
            ELSE IF r.outcome.status = 204 THEN "CORS_PREFLIGHT_RETURN"
            ELSE "NOT_FOUND"

ResponseStates ==
    {"CORS_PREFLIGHT_RETURN", "NOT_FOUND", "PLUGIN_DISABLED", "SUCCESS_RESPONSE", "ERROR_RESPONSE"}

\* the moves of the state machine, START -> ROUTE_LOOKUP -> ... taken as one move
RequestMoves ==
    {<<"IDLE", s>> : s \in {"CORS_PREFLIGHT_RETURN", "NOT_FOUND", "PLUGIN_DISABLED", "DISPATCH"}}
      \cup {<<"DISPATCH", s>> : s \in {"DISPATCH", "SUCCESS_RESPONSE", "ERROR_RESPONSE"}}
      \cup {<<s, "IDLE">> : s \in ResponseStates}

\* C27: every handle call moves START, then CORS_PREFLIGHT_RETURN or
\* ROUTE_LOOKUP, then NOT_FOUND, PLUGIN_DISABLED or DISPATCH, then
\* SUCCESS_RESPONSE or ERROR_RESPONSE; it eventually reaches a
\* response-producing terminal state and never re-enters a state it has left.
C27_RequestStateMachine ==
    /\ [][req' # req => <<RequestState(req), RequestState(req')>> \in RequestMoves]_vars
    /\ (req.pc # "idle") ~> (req.pc = "done" /\ RequestState(req) \in ResponseStates)

-----------------------------------------------------------------------------
(* Claims on the enabled flag *)

\* C28: every successful register stores the plugin record with enabled = true,
\* whatever the descriptor's own enabled field says, so that a lookup of a
\* route of the freshly registered plugin finds an enabled plugin.
C28_RegisteredEnabled ==
    [][\A d \in Descriptors :
         (Register(d) /\ last'.err = NoError) =>
            /\ plugins'[d.name].enabled = TRUE
            /\ \A t \in DeclaredRoutes(d) :
                  LET g == getHandler(RegNext, t.path, t.method) IN
                  (g.kind = "match" /\ g.plugin.name = d.name) => g.plugin.enabled]_vars

\* what enablePlugin (flag TRUE) or disablePlugin (flag FALSE) of the name did
EnabledFlagSet(n, flag) ==
    /\ last'.ret = (n \in DOMAIN registered)
    /\ <<routes', middlewares', pluginRoutes', pluginMiddlewares'>>
          = <<routes, middlewares, pluginRoutes, pluginMiddlewares>>
    /\ DOMAIN plugins' = DOMAIN plugins
    /\ \A o \in (DOMAIN plugins) \ {n} : plugins'[o] = plugins[o]
    /\ IF n \in DOMAIN registered
       THEN plugins'[n] = [plugins[n] EXCEPT !.enabled = flag]
       ELSE plugins' = plugins
    /\ setEnabled(RegNext, n, flag).reg = RegNext

\* C29: enablePlugin(name) and disablePlugin(name) return true iff a plugin
\* with that name is registered; for a registered plugin they set only its
\* enabled flag and leave the route table, the middleware list, the ownership
\* maps and every other record unchanged; for an unknown name they change
\* nothing; a second call changes nothing.
C29_EnableDisableFrame ==
    [][\A n \in AllNames :
         /\ EnablePlugin(n) => EnabledFlagSet(n, TRUE)
         /\ DisablePlugin(n) => EnabledFlagSet(n, FALSE)]_vars

-----------------------------------------------------------------------------
(* Claims on the lookup *)

-----------------------------------------------------------------------------
(* Claims on the paths *)

MaxPathLen == 4

\* every path of at most MaxPathLen characters over '/' and a letter
SamplePaths == UNION {[1..n -> {Slash, "a"}] : n \in 0..MaxPathLen}

\* the non-empty pieces between the slashes of a path
Pieces(p) == SelectSeq(Split(p), LAMBDA seg : seg # <<>>)

\* C31: sanitizePath collapses repeated '/', strips a trailing '/' and ensures
\* a leading '/', keeps the segments, is idempotent and maps the empty path to
\* '/'; getHandler returns the same route for two paths that sanitize to the
\* same path.
C31_SanitizePath ==
    /\ sanitizePath(<<>>) = <<Slash>>
    /\ \A p \in SamplePaths \cup RequestPaths :
          LET s == sanitizePath(p) IN
          /\ s[1] = Slash
          /\ \A i \in 1..(Len(s) - 1) : ~(s[i] = Slash /\ s[i + 1] = Slash)
          /\ s[Len(s)] = Slash => s = <<Slash>>
          /\ Pieces(s) = Pieces(p)
          /\ sanitizePath(s) = s
    /\ \A p, q \in RequestPaths, m \in VALID_HTTP_METHODS :
          sanitizePath(p) = sanitizePath(q) =>
             LET g == getHandler(Reg, p, m)
                 h == getHandler(Reg, q, m)
             IN /\ g.kind = h.kind
                /\ g.kind = "match" =>
                      /\ g.plugin = h.plugin
                      /\ g.handler = h.handler
                      /\ g.middlewares = h.middlewares

\* '/a/', '//a' and '/a' all find the handler registered for '/a'
C31_Witness ==
    /\ getHandler(Reg, P_aSlash, "GET").kind = "match"
    /\ getHandler(Reg, P_dbl_a, "GET").handler = getHandler(Reg, P_a, "GET").handler

-----------------------------------------------------------------------------
(* Claims on route conflicts *)

\* one of the descriptor's (path, method) pairs sanitizes to a pair of the
\* route table, or two of its own route keys sanitize to the same path and
\* declare the same method
HasRouteConflict(d) ==
    \/ \E t \in DeclaredRoutes(d) :
          t.path \in DOMAIN routes /\ t.method \in DOMAIN routes[t.path]
    \/ \E i, j \in 1..Len(d.routes) :
          /\ i < j
          /\ sanitizePath(d.routes[i].path) = sanitizePath(d.routes[j].path)
          /\ \E a \in 1..Len(d.routes[i].methods), b \in 1..Len(d.routes[j].methods) :
                d.routes[i].methods[a] = d.routes[j].methods[b]

\* C32 as stated: a register call fails with ROUTE_CONFLICT whenever one of
\* its (path, method) pairs sanitizes to a pair already in the route table or
\* to another pair of its own.
C32_RouteConflict ==
    [][\A d \in ConflictDescriptors :
         (Register(d) /\ HasRouteConflict(d)) =>
            last'.err = PluginRegistrationError("ROUTE_CONFLICT", <<>>)]_vars

\* C32, amended: the same for a register call that has passed the capacity,
\* name and validation checks, which come first and fail with their own codes.
C32_RouteConflictAfterValidation ==
    [][\A d \in ConflictDescriptors :
         (Register(d) /\ HasRouteConflict(d) /\ validateRegistration(Reg, d) = NoError) =>
            last'.err = PluginRegistrationError("ROUTE_CONFLICT", <<>>)]_vars

\* the register of a plugin whose keys '/a' and '/a/' both declare GET failed
\* on its own second key
C32_Witness ==
    /\ last.op = "register" /\ last.arg = "blogs"
    /\ last.err.code = "ROUTE_CONFLICT"
    /\ P_a \in DOMAIN routes
    /\ "GET" \in DOMAIN routes[P_a]
    /\ routes[P_a]["GET"].plugin = "blogs"

-----------------------------------------------------------------------------
(* Claims on the order of the middleware list *)

\* the position of the first occurrence of the function in the list
FirstPosition(list, fn) == CHOOSE i \in 1..Len(list) : list[i] = fn /\ \A k \in 1..(i - 1) : list[k] # fn

\* two functions of equal declared priority that are in both lists keep their order
TiesKeepOrder(old, new) ==
    \A a, b \in MiddlewareFns :
        (/\ \E i \in 1..Len(old) : old[i] = a
         /\ \E i \in 1..Len(old) : old[i] = b
         /\ \E i \in 1..Len(new) : new[i] = a
         /\ \E i \in 1..Len(new) : new[i] = b
         /\ DeclaredPriority(a) = DeclaredPriority(b)
         /\ FirstPosition(old, a) < FirstPosition(old, b))
        => FirstPosition(new, a) < FirstPosition(new, b)

\* C33: after every register and unregister the global middleware list is
\* sorted by descending priority, with ties kept in insertion order.
C33_StableOrdering ==
    /\ [](\A i, j \in 1..Len(middlewares) :
             i < j => DeclaredPriority(middlewares[i]) >= DeclaredPriority(middlewares[j]))
    /\ [][TiesKeepOrder(middlewares, middlewares')]_vars

-----------------------------------------------------------------------------
(* Claims on repeated calls of next() *)

\* the invocations of the route handler, and of a middleware, in the log
HandlerRuns == {i \in 1..Len(req.log) : req.log[i][1] = "handler"}

MiddlewareRuns(fn) ==
    {i \in 1..Len(req.log) : req.log[i][1] = fn /\ req.log[i][2] \in {"before", "short", "throw"}}

\* C35: during one handle call the route handler is invoked at most once and
\* each middleware at most once, also when a middleware calls next() more than
\* once.
C35_AtMostOnce ==
    req.pc # "idle" =>
       /\ Cardinality(HandlerRuns) <= 1
       /\ \A fn \in MiddlewareFns : Cardinality(MiddlewareRuns(fn)) <= 1

-----------------------------------------------------------------------------
(* Claims on hooks of a failed registration *)

\* C39: no hook fires for a registration that fails: when register raises
\* (capacity, duplicate name, validation or route conflict), neither onInit nor
\* any onRouteRegister of that descriptor has been invoked.
C39_NoHookOnFailure ==
    [][\A d \in Descriptors :
         (Register(d) /\ last'.err # NoError) => last'.hooks = <<>>]_vars

-----------------------------------------------------------------------------
(* Claims on the scope of middleware *)

\* the middleware functions a plugin registered
OwnMiddlewares(name) ==
    IF name \in DOMAIN pluginMiddlewares
    THEN {pluginMiddlewares[name][i] : i \in 1..Len(pluginMiddlewares[name])}
    ELSE {}

\* C38: the middleware run for a request are those of the plugin that owns the
\* matched route; a middleware registered by another plugin, and in particular
\* by a plugin that is currently disabled, is not run for requests to this
\* plugin's routes.
C38_MiddlewareScope ==
    (req.pc # "idle" /\ req.plugin.def) =>
       \A i \in 1..Len(req.log) :
          req.log[i][1] \in MiddlewareFns => req.log[i][1] \in OwnMiddlewares(req.plugin.val)

-----------------------------------------------------------------------------
(* Claims on requests in flight *)

\* C37: no handler of a plugin is invoked at a moment when that plugin is
\* disabled or unregistered; if disablePlugin(P) or unregister(P) completes
\* while a request to P's route is suspended in an awaiting middleware, P's
\* handler is not invoked afterwards for that request.
C37_NoHandlerAfterRemoval ==
    [][ExecuteRoute =>
         /\ req.handler.val.plugin \in DOMAIN plugins
         /\ plugins[req.handler.val.plugin].enabled]_vars

-----------------------------------------------------------------------------
(* createRateLimitMiddleware *)

\* options.windowMs and options.maxRequests as configured for the checked limiter
WindowMs == 2
MaxRequests == 2

\* the clock and the number of requests are bounded
MaxTime == 6
MaxArrivals == 4

\* keyGenerator(request)
LimiterKeys == {"ip1", "ip2"}

Max(a, b) == IF a >= b THEN a ELSE b

\* mutant: an entry whose window has expired keeps its count
rateLimitEntry_KeepsCount(st, key, t) ==
    IF key \notin DOMAIN st
    THEN [count |-> 0, resetTime |-> t + WindowMs]
    ELSE IF t > st[key].resetTime
         THEN [count |-> st[key].count, resetTime |-> t + WindowMs]
         ELSE st[key]

\* `if (!entry || now > entry.resetTime) entry = {count: 0, resetTime: now + windowMs}`
rateLimitEntry(st, key, t) ==
    IF key \notin DOMAIN st \/ t > st[key].resetTime
    THEN [count |-> 0, resetTime |-> t + WindowMs]
    ELSE st[key]

\* the middleware up to its `await next()`: this code has no await, so it is
\* one step; its answer is the 429 response or the call of next()
RateLimit(key) ==
    /\ Len(arrivals) < MaxArrivals
    /\ LET e == rateLimitEntry(store, key, now)
           entry == [e EXCEPT !.count = @ + 1] IN
       /\ store' = MapPut(store, key, entry)
       /\ arrivals' = Append(arrivals,
                             [key |-> key, at |-> now,
                              did |-> IF entry.count > MaxRequests THEN "429" ELSE "next"])
    /\ UNCHANGED <<regvars, last, registered, registeredMiddlewares, ropts, req, chain, now>>

\* time passes between two requests
Tick ==
    /\ now < MaxTime
    /\ now' = now + 1
    /\ UNCHANGED <<regvars, last, registered, registeredMiddlewares, ropts, req, chain,
                   store, arrivals>>

NextRateLimit ==
    \/ \E key \in LimiterKeys : RateLimit(key)
    \/ Tick

SpecRateLimit == Init /\ [][NextRateLimit]_vars

\* the requests of a key, as positions of the history
ArrivalsOf(key) == {i \in 1..Len(arrivals) : arrivals[i].key = key}

\* the arrival that opened the window arrival i falls in: the first counted
\* request of the key, or the first one after the window before it expired
RECURSIVE WindowOpener(_)
WindowOpener(i) ==
    LET before == {j \in ArrivalsOf(arrivals[i].key) : j < i} IN
    IF before = {} THEN i
    ELSE LET p == CHOOSE j \in before : \A k \in before : k <= j
             o == WindowOpener(p) IN
         IF arrivals[i].at > arrivals[o].at + WindowMs THEN i ELSE o

\* the position of arrival i among the requests of its window
RankInWindow(i) ==
    Cardinality({j \in ArrivalsOf(arrivals[i].key) : j <= i /\ WindowOpener(j) = WindowOpener(i)})

\* C40: for each key, among the requests arriving within one window (from the
\* first counted request until its resetTime) at most maxRequests reach
\* next(); every further request of that window gets the 429 response without
\* a call of next(), and the count restarts from zero with the first request
\* after the window has expired.
C40_RateLimit ==
    /\ \A i \in 1..Len(arrivals) :
          arrivals[i].did = IF RankInWindow(i) <= MaxRequests THEN "next" ELSE "429"
    /\ \A key \in LimiterKeys :
          ArrivalsOf(key) # {} =>
             LET l == CHOOSE j \in ArrivalsOf(key) : \A k \in ArrivalsOf(key) : k <= j IN
             /\ key \in DOMAIN store
             /\ store[key].count = RankInWindow(l)
             /\ store[key].resetTime = arrivals[WindowOpener(l)].at + WindowMs

\* a key was answered 429 in one window and reached next() again in the next one
C40_Witness ==
    \E i, j \in 1..Len(arrivals) :
       /\ i < j
       /\ arrivals[i].key = arrivals[j].key
       /\ arrivals[i].did = "429"
       /\ arrivals[j].did = "next"
       /\ RankInWindow(j) = 1

-----------------------------------------------------------------------------
(* MiddlewareChain.execute *)

\* the options after the constructor's defaults, with scaled times
ChainOptions == [continueOnError : BOOLEAN, timeout : {1, 4}, maxExecutionTime : {2, 5}]

\* what a middleware of the chain does: "pass" calls next() at once and returns
\* what it returned, "short" returns a response of its own, "throw" throws,
\* "slow" awaits SlowMs and then does what "pass" does
ChainBehaviours == {"pass", "short", "throw", "slow"}

SlowMs == 3

MaxChainLen == 2

\* the chains executed: a slow middleware is the outermost one, and everything
\* else takes no time, so that no timer of an enclosing middleware is pending
\* while a slow one is awaited
Chains ==
    UNION { {c \in [1..n -> ChainBehaviours] : \A i \in 2..n : c[i] # "slow"} :
            n \in 0..MaxChainLen }

\* finalHandler returns a response or throws
FinalOutcomes == {"response", "throw"}

ChainResponse(by) == [kind |-> "response", by |-> by]
ChainThrown(by) == [kind |-> "throw", by |-> by]

\* new Error('Middleware chain execution timeout')
ChainTimeoutError == ChainThrown("chain timeout")

\* new Error(`Middleware execution timeout after ${maxExecutionTime}ms`)
MiddlewareTimeoutError == ChainThrown("middleware timeout")

MiddlewareName(i) == "m" \o ToString(i)

\* the first timeout and the first error of an execute call are remembered
\* with the number of invocations made until then
Mark(c, field, by) ==
    IF c[field].def THEN c
    ELSE [c EXCEPT ![field] = Some([by |-> by, n |-> Len(c.log)])]

\* execute(request, finalHandler): up to its call of next()
Execute(o, ms, f) ==
    /\ chain.pc = "idle"
    /\ now + SlowMs <= MaxTime
    /\ chain' = [pc |-> "next", options |-> o, middlewares |-> ms, final |-> f,
                 currentIndex |-> 0, startTime |-> now, frames |-> <<>>, log |-> <<>>,
                 result |-> Undef, outcome |-> Undef, detached |-> <<>>, late |-> FALSE,
                 timedOut |-> Undef, failed |-> Undef]
    /\ UNCHANGED <<regvars, last, registered, registeredMiddlewares, ropts, req,
                   now, store, arrivals>>

\* the catch block of next(): `if (continueOnError) return await next(); else throw error`
ChainCatch(c, err) ==
    IF c.options.continueOnError
    THEN [c EXCEPT !.pc = "next", !.result = Undef]
    ELSE [c EXCEPT !.pc = "unwind", !.result = Some(err)]

\* one call of next()
ChainNext ==
    /\ chain.pc = "next"
    /\ IF now - chain.startTime > chain.options.timeout
       THEN /\ chain' = [Mark(chain, "timedOut", "chain timeout")
                           EXCEPT !.pc = "unwind", !.result = Some(ChainTimeoutError)]
            /\ now' = now
       ELSE IF chain.currentIndex >= Len(chain.middlewares)
       THEN \* `return await finalHandler()`, outside the try block
            LET c == [chain EXCEPT !.log = Append(@, "final"), !.pc = "unwind"] IN
            /\ chain' = IF chain.final = "response"
                        THEN [c EXCEPT !.result = Some(ChainResponse("final"))]
                        ELSE [Mark(c, "failed", "final")
                                EXCEPT !.result = Some(ChainThrown("final"))]
            /\ now' = now
       ELSE LET i == chain.currentIndex + 1
                b == chain.middlewares[i]
                c == [chain EXCEPT !.currentIndex = i, !.log = Append(@, MiddlewareName(i))] IN
            CASE b = "pass" ->
                   /\ chain' = [c EXCEPT !.frames = Append(@, i)]
                   /\ now' = now
              [] b = "short" ->
                   /\ chain' = [c EXCEPT !.pc = "unwind",
                                         !.result = Some(ChainResponse(MiddlewareName(i)))]
                   /\ now' = now
              [] b = "throw" ->
                   /\ chain' = ChainCatch(Mark(c, "failed", MiddlewareName(i)),
                                          ChainThrown(MiddlewareName(i)))
                   /\ now' = now
              [] b = "slow" ->
                   IF SlowMs > chain.options.maxExecutionTime
                   THEN \* timeoutPromise wins the race; the middleware goes on
                        \* running and calls next() when its SlowMs are over
                        /\ chain' = ChainCatch(
                                      [Mark(c, "timedOut", "middleware timeout")
                                         EXCEPT !.detached = Append(@, now + SlowMs)],
                                      MiddlewareTimeoutError)
                        /\ now' = now + chain.options.maxExecutionTime
                   ELSE /\ chain' = [c EXCEPT !.frames = Append(@, i)]
                        /\ now' = now + SlowMs
    /\ UNCHANGED <<regvars, last, registered, registeredMiddlewares, ropts, req,
                   store, arrivals>>

\* the innermost middleware awaiting next() gets its result: a response is
\* returned through it, an exception makes it reject and is caught by the
\* call of next() that invoked it
ChainResume ==
    /\ chain.pc = "unwind"
    /\ chain.frames # <<>>
    /\ LET c == [chain EXCEPT !.frames = SubSeq(@, 1, Len(@) - 1)] IN
       chain' = IF chain.result.val.kind = "response" THEN c
                ELSE ChainCatch(c, chain.result.val)
    /\ UNCHANGED <<regvars, last, registered, registeredMiddlewares, ropts, req,
                   now, store, arrivals>>

\* `return await next()` of execute; what a call of next() made by a
\* middleware that lost the race returns is dropped
ChainComplete ==
    /\ chain.pc = "unwind"
    /\ chain.frames = <<>>
    /\ chain' = [chain EXCEPT !.pc = "done",
                              !.outcome = IF chain.late THEN @ ELSE chain.result]
    /\ UNCHANGED <<regvars, last, registered, registeredMiddlewares, ropts, req,
                   now, store, arrivals>>

\* a middleware that lost the race against timeoutPromise was not cancelled:
\* when its work is over it calls next()
ChainDetached ==
    /\ chain.pc = "done"
    /\ chain.detached # <<>>
    /\ chain' = [chain EXCEPT !.pc = "next", !.late = TRUE, !.result = Undef,
                              !.detached = Tail(@)]
    /\ now' = Max(now, Head(chain.detached))
    /\ UNCHANGED <<regvars, last, registered, registeredMiddlewares, ropts, req,
                   store, arrivals>>

\* nothing of the execute call is left running
ChainReturn ==
    /\ chain.pc = "done"
    /\ chain.detached = <<>>
    /\ chain' = [pc |-> "idle"]
    /\ UNCHANGED <<regvars, last, registered, registeredMiddlewares, ropts, req,
                   now, store, arrivals>>

NextChain ==
    \/ \E o \in ChainOptions, ms \in Chains, f \in FinalOutcomes : Execute(o, ms, f)
    \/ ChainNext
    \/ ChainResume
    \/ ChainComplete
    \/ ChainDetached
    \/ ChainReturn

SpecChain == Init /\ [][NextChain]_vars

\* C34: when the overall chain timeout or a per-middleware execution timeout
\* is exceeded, execute fails with a timeout error and does not continue to
\* the next middleware or the final handler, for every value of the options.
C34_TimeoutsAreFailures ==
    (chain.pc # "idle" /\ chain.timedOut.def) =>
       /\ Len(chain.log) = chain.timedOut.val.n
       /\ chain.pc = "done" =>
             chain.outcome.val \in {ChainTimeoutError, MiddlewareTimeoutError}

\* the invocations of the final handler or of a middleware in the log
InvocationsOf(who) == {k \in 1..Len(chain.log) : chain.log[k] = who}

\* C36: with continueOnError = true a failing middleware is skipped and the
\* chain continues with the middleware after it, and the final handler and
\* every middleware are invoked at most once per execute call, also when the
\* failure comes from the final handler or a later middleware and propagates
\* back through earlier ones; with continueOnError = false the first error
\* ends the chain and is rethrown.
C36_ContinueOnError ==
    (chain.pc # "idle" /\ \A i \in 1..Len(chain.middlewares) : chain.middlewares[i] # "slow") =>
       /\ \A who \in {"final"} \cup {MiddlewareName(i) : i \in 1..MaxChainLen} :
             Cardinality(InvocationsOf(who)) <= 1
       /\ (~chain.options.continueOnError /\ chain.failed.def) =>
             /\ Len(chain.log) = chain.failed.val.n
             /\ chain.pc = "done" => chain.outcome = Some(ChainThrown(chain.failed.val.by))
       /\ (/\ chain.options.continueOnError
           /\ chain.pc = "done"
           /\ chain.final = "response"
           /\ \A i \in 1..Len(chain.middlewares) : chain.middlewares[i] # "short") =>
             /\ chain.outcome = Some(ChainResponse("final"))
             /\ chain.log = [k \in 1..(Len(chain.middlewares) + 1) |->
                               IF k <= Len(chain.middlewares) THEN MiddlewareName(k) ELSE "final"]

====
